---- MODULE Spec2Model ----
(***************************************************************************)
(* Model of the iDRAC6 client (internal/idrac/client.go): the Session held *)
(* by one Client, the two-step login handshake, the data operations        *)
(* Get/Set/PostForm running through doWithRetry, Logout, and the callers   *)
(* (goroutines) that share the Client and its mutex.  The controller is    *)
(* the environment: it answers every request, and its answers are drawn    *)
(* from small sets.  The controller tells the requests apart by the cookie *)
(* applySession attaches; the cookie jar of the http.Client is not part of  *)
(* the model.                                                              *)
(***************************************************************************)
EXTENDS Integers, Sequences, FiniteSets, TLC

\* ------------------------------------------------------------------ bounds
\* Callers (goroutines) sharing the one Client.
NumProcs == 2
\* Operations started in a run, all callers together.  An operation runs at
\* most one handshake, so its number also names its handshake.
MaxOps == 2

Procs == 1..NumProcs

\* ---------------------------------------------------------- program values
StatusOK == 200
StatusUnauthorized == 401
\* Statuses of the controller other than 200 and 401.
OtherStatuses == {403, 500}

\* The operations that run through doWithRetry.
DataKinds == {"Get", "Set", "PostForm"}

\* power.go: ValidPowerActions, name -> numeric action.  (Swapped: a table
\* with the codes of restart and reset exchanged.)
ValidPowerActionsSwapped ==
    [off |-> 0, on |-> 1, restart |-> 3, reset |-> 2, nmi |-> 4, shutdown |-> 5]
ValidPowerActions ==
    [off |-> 0, on |-> 1, restart |-> 2, reset |-> 3, nmi |-> 4, shutdown |-> 5]

\* Names handed to SetPowerByName where it runs beside the other calls: one
\* of the map and one that is not in it.
PowerNames == {"shutdown", "bogus"}

\* Every name of the map, and names that are not in it.
AllPowerNames == {"off", "on", "restart", "reset", "nmi", "shutdown",
                  "bogus", "ON", ""}

\* SetPower: fmt.Sprintf("pwState:%d", action), the parameter handed to Set.
NoParam == [key |-> "", value |-> 0]
PowerCommand(action) == [key |-> "pwState", value |-> action]

\* No SetPowerByName call.
NoPower == [byName |-> FALSE, name |-> "", param |-> NoParam]

VARIABLES
    sessionID,  \* Client.sessionID: 0 is "", else an identifier of the controller
    st1,        \* Client.st1: 0 is "", else the token of handshake st1
    st2,        \* Client.st2
    newAuth,    \* Client.newAuth
    mu,         \* Client.mu: 0 when free, else the caller that holds it
    pc,         \* per caller: where it stands in its operation
    kind,       \* per caller: the operation it runs
    opn,        \* per caller: the number of its operation
    req,        \* per caller: the request built by the last fn() call
    resp,       \* per caller: doWithRetry's local variable resp
    result,     \* per caller: what its operation returned
    log,        \* per caller: the sends and handshakes of its operation, in order
    sess0,      \* per caller: the Session as it was when its operation started
    valid,      \* controller: the session identifiers it accepts
    authed,     \* every identifier a successful login ever authenticated
    opCount,    \* operations started so far
    loginResp,  \* login()'s result: the last answer to a login POST it read
    sessionResp, \* login()'s local sessionResp: the answer of /start.html, while login() runs
    power,      \* per caller: the name its SetPowerByName call was given and
                \* the parameter the call handed to Set
    qcall,      \* the query in progress: GetPowerState or GetSensors
    qat,        \* where the query stands
    qgot,       \* what c.Get has returned to the query, in order
    qret,       \* what the query returns
    config,     \* api.Config: the hosts by id, and the API key
    clients,    \* Handlers.clients: the stored Client of each host id that has one
    vmedia,     \* Handlers.vmedia: the stored manager of each host id that has one
    hpc,        \* per HTTP request in service: where it stands in the router
    hreq,       \* per HTTP request in service: the request
    hresp,      \* per HTTP request in service: the status and body written
    hlog,       \* per HTTP request in service: what has run for it, in order
    hclient     \* per HTTP request in service: the Client its handler holds

vars == <<sessionID, st1, st2, newAuth, mu, pc, kind, opn, req, resp, result,
          log, sess0, valid, authed, opCount, loginResp, sessionResp, power,
          qcall, qat, qgot, qret,
          config, clients, vmedia, hpc, hreq, hresp, hlog, hclient>>

clientVars == <<sessionID, st1, st2, newAuth>>

queryVars == <<qcall, qat, qgot, qret>>

apiVars == <<config, clients, vmedia, hpc, hreq, hresp, hlog, hclient>>

\* Everything but the queries.
sessionVars == <<sessionID, st1, st2, newAuth, mu, pc, kind, opn, req, resp,
                 result, log, sess0, valid, authed, opCount, loginResp, sessionResp, power,
                 apiVars>>

\* Everything but the HTTP API.
idracVars == <<sessionID, st1, st2, newAuth, mu, pc, kind, opn, req, resp,
               result, log, sess0, valid, authed, opCount, loginResp, sessionResp, power,
               queryVars>>

\* ------------------------------------------------------------------ strings
\* A text is the sequence of its characters.  The operators below are Go's
\* strings.TrimSpace, strings.Contains, strings.Split, strings.SplitN and
\* strings.ToLower as the decoders use them (separators of one character).
Spaces == {" ", "\t", "\n", "\r"}

RECURSIVE TrimLeft(_)
TrimLeft(s) ==
    IF s # <<>> /\ Head(s) \in Spaces THEN TrimLeft(Tail(s)) ELSE s

RECURSIVE TrimRight(_)
TrimRight(s) ==
    IF s # <<>> /\ s[Len(s)] \in Spaces
    THEN TrimRight(SubSeq(s, 1, Len(s) - 1))
    ELSE s

TrimSpace(s) == TrimRight(TrimLeft(s))

Contains(s, c) == \E i \in 1..Len(s) : s[i] = c

\* Position of the first c in s (s contains one).
IndexOf(s, c) == CHOOSE i \in 1..Len(s) : s[i] = c /\ \A j \in 1..(i - 1) : s[j] # c

\* strings.Split(s, c): the pieces between the separators, at least one.
RECURSIVE Split(_, _)
Split(s, c) ==
    IF ~Contains(s, c) THEN <<s>>
    ELSE <<SubSeq(s, 1, IndexOf(s, c) - 1)>>
            \o Split(SubSeq(s, IndexOf(s, c) + 1, Len(s)), c)

\* strings.SplitN(s, c, n), n > 0: at most n pieces, the last one unsplit.
RECURSIVE SplitN(_, _, _)
SplitN(s, c, n) ==
    IF n <= 1 \/ ~Contains(s, c) THEN <<s>>
    ELSE <<SubSeq(s, 1, IndexOf(s, c) - 1)>>
            \o SplitN(SubSeq(s, IndexOf(s, c) + 1, Len(s)), c, n - 1)

\* strings.ToLower, over the letters the decoders compare.
ToLower(s) ==
    LET lower(c) ==
            CASE c = "A" -> "a" [] c = "F" -> "f" [] c = "I" -> "i"
              [] c = "N" -> "n" [] c = "T" -> "t" [] c = "Y" -> "y"
              [] OTHER -> c
    IN [i \in 1..Len(s) |-> lower(s[i])]

\* ------------------------------------------------------------- the Session
Session ==
    [sessionID |-> sessionID, st1 |-> st1, st2 |-> st2, newAuth |-> newAuth]

ClearedSession ==
    [sessionID |-> 0, st1 |-> 0, st2 |-> 0, newAuth |-> FALSE]

\* Identifiers of handshake h: the one /start.html sets, the one the login
\* POST's response sets when it sets one.
BootstrapIDOf(h) == 2 * h - 1
LoginIDOf(h) == 2 * h
HandshakeOf(id) == (id + 1) \div 2

\* ------------------------------------------------------------ the requests
NoReq == [cookie |-> 0, st2 |-> 0]
NoResp == [status |-> 0, body |-> 0]
NoResult ==
    [ok |-> FALSE, err |-> "", cause |-> "", code |-> 0, body |-> 0, msg |-> ""]

\* The body the controller writes in answer to send number try of operation n.
BodyOf(n, try) == 2 * n - 2 + try

Ok(body) ==
    [ok |-> TRUE, err |-> "", cause |-> "", code |-> 0, body |-> body, msg |-> ""]
Err(e, cause, code) ==
    [ok |-> FALSE, err |-> e, cause |-> cause, code |-> code, body |-> 0,
     msg |-> ""]

StatusName(s) ==
    CASE s = 200 -> "200" [] s = 401 -> "401" [] s = 403 -> "403" [] s = 500 -> "500"

SendEvents == {"200", "401", "403", "500", "err", "readerr"}

RECURSIVE CountIn(_, _)
CountIn(s, set) ==
    IF s = <<>> THEN 0
    ELSE (IF Head(s) \in set THEN 1 ELSE 0) + CountIn(Tail(s), set)

\* Requests an operation has sent, handshakes it has run.
SendCount(p) == CountIn(log[p], SendEvents)
HandshakeCount(p) == CountIn(log[p], {"hsok", "hsfail"})

\* power.go: PowerState.
PowerOff == 0
PowerOn == 1
PowerInvalid == 2

\* What a query returns: its error, the PowerStatus of GetPowerState, the
\* SensorData of GetSensors (a nil slice is the empty sequence), the float64
\* of parseFloat, the SELData of GetSEL, the fields of GetSystemInfo.
NoQueryResult ==
    [err |-> "", state |-> PowerOff, status |-> "",
     temperatures |-> <<>>, fans |-> <<>>, voltages |-> <<>>,
     value |-> [cls |-> "num", n |-> 0],
     entries |-> <<>>, totalCount |-> 0, info |-> <<>>,
     split |-> <<>>, reading |-> <<>>]

\* No login answer read yet.
NoLogin ==
    [t |-> "none", authResult |-> 0, errorMsg |-> "", setCookie |-> FALSE,
     fwd |-> [empty |-> TRUE, query |-> FALSE, keys |-> {}]]

\* No answer of /start.html at hand.
NoSessionResp == [cookies |-> <<>>, setCookie |-> <<>>]

\* The HTTP requests the router serves at a time.
NumRequests == 2
Requests == 1..NumRequests

\* No request, and no response written yet.
NoHost == [id |-> "", name |-> "", host |-> "", username |-> "", password |-> ""]
NoRequest ==
    [route |-> "", hostID |-> "", xApiKey |-> "",
     authorization |-> [scheme |-> "", token |-> ""], body |-> NoHost]

\* No Client.
NoClient == [host |-> "", username |-> "", password |-> "", by |-> 0]
NoResponse == [status |-> 0, body |-> <<>>]

\* A router that has no host and no API key, and serves nothing.
NoServer ==
    /\ config = [hosts |-> <<>>, apiKey |-> ""]
    /\ clients = <<>> /\ vmedia = <<>>
    /\ hpc = [h \in Requests |-> "idle"]
    /\ hreq = [h \in Requests |-> NoRequest]
    /\ hresp = [h \in Requests |-> NoResponse]
    /\ hlog = [h \in Requests |-> <<>>]
    /\ hclient = [h \in Requests |-> NoClient]

\* ------------------------------------------------------------ construction
\* NewClient: no session; nothing has run.
Init ==
    /\ sessionID = 0 /\ st1 = 0 /\ st2 = 0 /\ newAuth = FALSE
    /\ mu = 0
    /\ pc = [p \in Procs |-> "idle"]
    /\ kind = [p \in Procs |-> "none"]
    /\ opn = [p \in Procs |-> 0]
    /\ req = [p \in Procs |-> NoReq]
    /\ resp = [p \in Procs |-> NoResp]
    /\ result = [p \in Procs |-> NoResult]
    /\ log = [p \in Procs |-> <<>>]
    /\ sess0 = [p \in Procs |-> ClearedSession]
    /\ valid = {}
    /\ authed = {}
    /\ opCount = 0
    /\ loginResp = NoLogin
    /\ sessionResp = NoSessionResp
    /\ power = [p \in Procs |-> NoPower]
    /\ qcall = "none" /\ qat = "idle" /\ qgot = <<>> /\ qret = NoQueryResult
    /\ NoServer

\* ------------------------------------------------------- starting a call
CanStart(p) == pc[p] \in {"idle", "done"} /\ opCount < MaxOps

\* A caller enters an operation of kind k at place at.
Begin(p, k, at) ==
    /\ opCount' = opCount + 1
    /\ kind' = [kind EXCEPT ![p] = k]
    /\ opn' = [opn EXCEPT ![p] = opCount + 1]
    /\ resp' = [resp EXCEPT ![p] = NoResp]
    /\ log' = [log EXCEPT ![p] = <<>>]
    /\ sess0' = [sess0 EXCEPT ![p] = Session]
    /\ pc' = [pc EXCEPT ![p] = at]

\* An operation returns res: its locals are gone, its result and the record of
\* what it did stay until the caller starts its next operation.
Return(p, res) ==
    /\ pc' = [pc EXCEPT ![p] = "done"]
    /\ result' = [result EXCEPT ![p] = res]
    /\ kind' = [kind EXCEPT ![p] = "none"]
    /\ req' = [req EXCEPT ![p] = NoReq]
    /\ resp' = [resp EXCEPT ![p] = NoResp]
    /\ power' = [power EXCEPT ![p] = NoPower]

\* ----------------------------------------------------------------- the lock
\* doWithRetry calls login() after a 401 whatever the Session has become
\* since the request was built.  (Coalesced: a single-flight retry that
\* would log in only when no other caller has replaced the Session.)
ReloginCoalesced(seen, current) == seen = current
ReloginAfter401(seen, current) == TRUE

\* c.mu.Lock() in doWithRetry after a 401 (Login and Logout take the lock as
\* their first statement).
Lock(p) ==
    /\ pc[p] = "lock"
    /\ mu = 0
    /\ IF ReloginAfter401(sess0[p], Session)
       THEN mu' = p /\ pc' = [pc EXCEPT ![p] = "login1"]
       ELSE mu' = mu /\ pc' = [pc EXCEPT ![p] = "fn2"]
    /\ UNCHANGED <<clientVars, kind, opn, req, resp, result, log, sess0, valid,
                   authed, opCount, loginResp, sessionResp, power, queryVars,
                   apiVars>>

\* ------------------------------------------------------------ applySession
\* applySession takes the lock for the time of its reads.  (Unlocked: an
\* applySession that would read the fields without c.mu.)
ApplySessionUnlocked == TRUE
ApplySessionLocked == mu = 0

\* The cookie and the ST2 header applySession puts on a request.
SessionCookie == sessionID
SessionHeader == IF newAuth /\ st2 # 0 THEN st2 ELSE 0

AppliedRequest == [cookie |-> SessionCookie, st2 |-> SessionHeader]

\* The second fn() call up to the send: the request is built again and the
\* session applied to it.
ApplySession(p) ==
    /\ pc[p] = "fn2"
    /\ ApplySessionLocked
    /\ req' = [req EXCEPT ![p] = AppliedRequest]
    /\ pc' = [pc EXCEPT ![p] = "do2"]
    /\ UNCHANGED <<clientVars, mu, kind, opn, resp, result, log, sess0, valid,
                   authed, opCount, loginResp, sessionResp, power, queryVars,
                   apiVars>>

\* A call runs up to the first point where it waits for the lock's holder or
\* for the controller: nothing another caller can see happens before.
\* Get, Set, PostForm: the call of doWithRetry, whose first fn() call builds
\* the request and applies the session to it.
StartData(p, k) ==
    /\ CanStart(p)
    /\ ApplySessionLocked
    /\ Begin(p, k, "do1")
    /\ req' = [req EXCEPT ![p] = AppliedRequest]
    /\ result' = [result EXCEPT ![p] = NoResult]
    /\ power' = [power EXCEPT ![p] = NoPower]
    /\ UNCHANGED <<clientVars, mu, valid, authed, loginResp, sessionResp,
                   queryVars, apiVars>>

\* SetPowerByName: a name outside ValidPowerActions returns at once, the
\* others go on to SetPower and Set.
KnownAction(name) == name \in DOMAIN ValidPowerActions

SetPowerByName(p, name) ==
    /\ CanStart(p)
    /\ KnownAction(name) => ApplySessionLocked
    /\ Begin(p, IF KnownAction(name) THEN "Set" ELSE "none",
             IF KnownAction(name) THEN "do1" ELSE "done")
    /\ req' = [req EXCEPT ![p] = IF KnownAction(name) THEN AppliedRequest ELSE NoReq]
    /\ result' = [result EXCEPT ![p] =
                    IF KnownAction(name) THEN NoResult
                    ELSE Err("unknown power action", "", 0)]
    /\ power' = [power EXCEPT ![p] =
                   [byName |-> TRUE, name |-> name,
                    param |-> IF KnownAction(name)
                              THEN PowerCommand(ValidPowerActions[name])
                              ELSE NoParam]]
    /\ UNCHANGED <<clientVars, mu, valid, authed, loginResp, sessionResp,
                   queryVars, apiVars>>

\* Login and Logout: the call and its c.mu.Lock().
StartLogin(p) ==
    /\ CanStart(p)
    /\ mu = 0
    /\ mu' = p
    /\ Begin(p, "Login", "login1")
    /\ req' = [req EXCEPT ![p] = NoReq]
    /\ result' = [result EXCEPT ![p] = NoResult]
    /\ power' = [power EXCEPT ![p] = NoPower]
    /\ UNCHANGED <<clientVars, valid, authed, loginResp, sessionResp, queryVars, apiVars>>

StartLogout(p) ==
    /\ CanStart(p)
    /\ mu = 0
    /\ mu' = p
    /\ Begin(p, "Logout", "logout")
    /\ req' = [req EXCEPT ![p] = NoReq]
    /\ result' = [result EXCEPT ![p] = NoResult]
    /\ power' = [power EXCEPT ![p] = NoPower]
    /\ UNCHANGED <<clientVars, valid, authed, loginResp, sessionResp, queryVars, apiVars>>

\* ------------------------------------------------------------ the controller
\* What the controller does with one data request: it answers by its session
\* table ("conform"), it has dropped the session and answers 401 ("expired"),
\* it answers another status, the exchange fails ("err"), or the answer
\* arrives and its body cannot be read to the end ("readerr").
DataOutcomes ==
    {[t |-> x, code |-> 0] : x \in {"conform", "expired", "err", "readerr"}}
        \cup {[t |-> "status", code |-> s] : s \in OtherStatuses}

\* A controller that keeps its sessions and always answers.
ConformingOutcomes == {[t |-> "conform", code |-> 0]}

ServerStatus(r, o) ==
    CASE o.t = "status" -> o.code
      [] o.t = "expired" -> StatusUnauthorized
      [] OTHER -> IF r.cookie \in valid THEN StatusOK ELSE StatusUnauthorized

ServerResponse(r, o, n, try) ==
    [status |-> ServerStatus(r, o), body |-> BodyOf(n, try)]

\* --------------------------------------------------------------- doWithRetry
\* The one place doWithRetry decides to log in again and replay: a 401 on the
\* first send.  (Always: a loop that retries on every 401.  Not200: a retry on
\* every status other than 200.)
RetryOnAlways(attempt, status) == status = StatusUnauthorized
RetryOnNot200(attempt, status) == attempt = 1 /\ status # StatusOK
RetryOn(attempt, status) == attempt = 1 /\ status = StatusUnauthorized

\* resp, err = fn(): the replay's response replaces the first one.
\* (KeepFirst: "resp, err := fn()", which would shadow resp inside the if.)
RespKeepFirst(first, second) == first
RespAfterRetry(first, second) == second

\* After login(): the request is replayed only when the login succeeded.
\* (Always: a replay that would ignore loginErr.)
ReplayAlways(ok) == TRUE
ReplayAfterLogin(ok) == ok

\* The end of doWithRetry: the status check and the read of the body.
ReturnOf(r, readable) ==
    IF r.status # StatusOK THEN Err("unexpected status", "", r.status)
    ELSE IF ~readable THEN Err("reading response body", "", 0)
    ELSE Ok(r.body)

SendEvent(r, o) ==
    IF o.t = "err" THEN "err"
    ELSE IF o.t = "readerr" /\ r.status = StatusOK THEN "readerr"
    ELSE StatusName(r.status)

\* fn()'s c.http.Do(req) and what doWithRetry does with its return, up to the
\* lock it takes after a 401 or to its own return.
Do(p, o) ==
    /\ pc[p] \in {"do1", "do2"}
    /\ LET a == IF pc[p] = "do1" THEN 1 ELSE 2
           r == ServerResponse(req[p], o, opn[p], a)
           cur == IF a = 1 THEN r ELSE RespAfterRetry(resp[p], r)
       IN /\ valid' = IF o.t = "expired" THEN valid \ {req[p].cookie} ELSE valid
          /\ log' = [log EXCEPT ![p] = Append(@, SendEvent(r, o))]
          /\ IF o.t = "err"
             THEN Return(p, Err(IF a = 1 THEN "request failed"
                                ELSE "retry request failed", "", 0))
             ELSE IF RetryOn(a, cur.status)
                  THEN /\ pc' = [pc EXCEPT ![p] = "lock"]
                       /\ resp' = [resp EXCEPT ![p] = cur]
                       /\ req' = [req EXCEPT ![p] = NoReq]
                       /\ UNCHANGED <<result, kind, power>>
                  ELSE Return(p, ReturnOf(cur, o.t # "readerr"))
    /\ UNCHANGED <<clientVars, mu, opn, sess0, authed, opCount, loginResp, sessionResp,
                   queryVars, apiVars>>

\* --------------------------------------------------------------------- login
\* login()'s error: the refusal carries the authResult and the errorMsg
\* of the answer ("login failed: authResult=%d, error=%s").
LoginError(cause, r) ==
    IF cause = "login failed"
    THEN [Err(cause, "", r.authResult) EXCEPT !.msg = r.errorMsg]
    ELSE Err(cause, "", 0)

\* c.mu.Unlock() after login(): the lock's holder afterwards.  (Skipped: a
\* return path that would leave the lock held.)
UnlockSkipped(p) == p
Unlocked(p) == 0

\* login() returns to Login or to doWithRetry, which unlock; doWithRetry then
\* returns the failure or goes on to the replay.
LoginReturn(p, ok, cause) ==
    /\ mu' = Unlocked(p)
    /\ log' = [log EXCEPT ![p] = Append(@, IF ok THEN "hsok" ELSE "hsfail")]
    /\ IF kind[p] = "Login"
       THEN Return(p, IF ok THEN Ok(0) ELSE LoginError(cause, loginResp'))
       ELSE IF ReplayAfterLogin(ok)
            THEN /\ pc' = [pc EXCEPT ![p] = "fn2"]
                 /\ UNCHANGED <<result, kind, req, resp, power>>
            ELSE Return(p, [LoginError(cause, loginResp') EXCEPT
                              !.err = "re-login after 401 failed",
                              !.cause = cause])

\* Step 1 answers: the exchange fails, the answer sets no session cookie, it
\* sets one the cookie parser returns, it sets one only the raw header shows.
Step1Outcomes == {"err", "none", "cookie", "raw"}

\* The name of the session cookie, and the text login() looks for in the raw
\* header.
SessionCookieName == "_appwebSessionId_"
SessionCookieMarker == "_appwebSessionId_="

\* The answers of /start.html of each kind: sessionResp.Cookies(), a sequence
\* of names and values, and sessionResp.Header.Get("Set-Cookie"), the text of
\* the first Set-Cookie header as a sequence of pieces ("s" stands for the
\* identifier the controller issues).
Step1Responses(o) ==
    CASE o = "none" ->
            {[cookies |-> <<>>, setCookie |-> <<>>],
             [cookies |-> <<[name |-> "lang", value |-> "en"]>>,
              setCookie |-> <<"lang=", "en", ";", " path=/">>],
             [cookies |-> <<>>,
              setCookie |-> <<SessionCookieMarker, ";", " path=/">>]}
      [] o = "cookie" ->
            {[cookies |-> <<[name |-> SessionCookieName, value |-> "s"]>>,
              setCookie |-> <<SessionCookieMarker, "s", ";", " path=/">>],
             [cookies |-> <<[name |-> "lang", value |-> "en"],
                            [name |-> SessionCookieName, value |-> "s"]>>,
              setCookie |-> <<"lang=", "en">>]}
      [] o = "raw" ->
            {[cookies |-> <<>>,
              setCookie |-> <<SessionCookieMarker, "s", ";", " path=/", ";",
                              " httponly">>],
             [cookies |-> <<>>,
              setCookie |-> <<SessionCookieMarker, "s">>],
             [cookies |-> <<[name |-> "lang", value |-> "en"]>>,
              setCookie |-> <<"bad name=", "x", ";", " ", SessionCookieMarker,
                              "s", ";", " path=/">>]}
      [] OTHER -> {NoSessionResp}

\* The loop over sessionResp.Cookies(): the value of the first cookie named
\* _appwebSessionId_, "" when there is none.
RECURSIVE CookieValue(_)
CookieValue(cookies) ==
    IF cookies = <<>> THEN <<>>
    ELSE IF Head(cookies).name = SessionCookieName THEN <<Head(cookies).value>>
    ELSE CookieValue(Tail(cookies))

\* The raw header: what follows the first "_appwebSessionId_=", up to the
\* first ";" after it when there is one.  (Uncut: a value taken to the end of
\* the header.)
RawCookieValueUncut(setCookie) ==
    IF ~Contains(setCookie, SessionCookieMarker) THEN <<>>
    ELSE SubSeq(setCookie, IndexOf(setCookie, SessionCookieMarker) + 1,
                Len(setCookie))
RawCookieValue(setCookie) ==
    IF ~Contains(setCookie, SessionCookieMarker) THEN <<>>
    ELSE LET val == SubSeq(setCookie, IndexOf(setCookie, SessionCookieMarker) + 1,
                           Len(setCookie))
         IN IF Contains(val, ";") THEN SubSeq(val, 1, IndexOf(val, ";") - 1)
            ELSE val

\* c.sessionID = val: the identifier a text stands for: none for "", the
\* issued one for "s", and for any other text an identifier the controller
\* never issued.
SessionIDOf(val, issued) ==
    IF val = <<>> THEN 0 ELSE IF val = <<"s">> THEN issued ELSE -1

\* The identifier taken from the answer of /start.html: the parsed cookie,
\* else the one cut out of the raw Set-Cookie header, else none.
BootstrapID(cookieVal, rawVal) == IF cookieVal # 0 THEN cookieVal ELSE rawVal

\* if c.sessionID == "": the handshake ends before its second step.  (Never:
\* a login that would go on to the POST without an identifier.)
BootstrapNeverFails(sid) == FALSE
BootstrapFailed(sid) == sid = 0

\* The cookie login() puts on the login POST.
LoginCookie == sessionID

LoginStep1(p, o) ==
    /\ pc[p] = "login1"
    /\ \E sr \in Step1Responses(o) :
        LET issued == BootstrapIDOf(opn[p])
            sid == BootstrapID(SessionIDOf(CookieValue(sr.cookies), issued),
                               SessionIDOf(RawCookieValue(sr.setCookie), issued))
        IN IF o = "err"
           THEN /\ LoginReturn(p, FALSE, "session request failed")
                /\ sessionResp' = NoSessionResp
                /\ UNCHANGED clientVars
           ELSE /\ sessionID' = sid
                /\ UNCHANGED <<st1, st2, newAuth>>
                /\ IF BootstrapFailed(sid)
                   THEN /\ LoginReturn(p, FALSE, "no session cookie")
                        /\ sessionResp' = NoSessionResp
                   ELSE /\ pc' = [pc EXCEPT ![p] = "login2"]
                        /\ sessionResp' = sr
                        /\ UNCHANGED <<mu, result, log, kind, req, resp, power>>
    /\ UNCHANGED <<opn, sess0, valid, authed, opCount, loginResp,
                   queryVars, apiVars>>

\* forwardUrl of the login answer: empty, a path, or a path and a query whose
\* comma-separated parameters name ST1, ST2, both or neither.
ForwardURLs ==
    {[empty |-> TRUE, query |-> FALSE, keys |-> {}],
     [empty |-> FALSE, query |-> FALSE, keys |-> {}]}
        \cup {[empty |-> FALSE, query |-> TRUE, keys |-> K] : K \in SUBSET {"ST1", "ST2"}}

NoURL == [empty |-> TRUE, query |-> FALSE, keys |-> {}]

\* The answers to the login POST: the exchange fails, the body is no XML, or
\* it parses with an authResult, a forwardUrl and perhaps a session cookie.
\* A refusal comes with or without an errorMsg.
LoginResponses ==
    {[t |-> x, authResult |-> 0, errorMsg |-> "", setCookie |-> FALSE,
      fwd |-> NoURL] : x \in {"err", "badxml"}}
        \cup {[t |-> "xml", authResult |-> 1, errorMsg |-> e, setCookie |-> FALSE,
               fwd |-> NoURL] : e \in {"", "Invalid credentials"}}
        \cup {[t |-> "xml", authResult |-> 5, errorMsg |-> "", setCookie |-> FALSE,
               fwd |-> NoURL]}
        \cup {[t |-> "xml", authResult |-> 0, errorMsg |-> "", setCookie |-> c,
               fwd |-> f] : c \in BOOLEAN, f \in ForwardURLs}

\* The answers of a controller that accepts the credentials.
AcceptingResponses == {r \in LoginResponses : r.t = "xml" /\ r.authResult = 0}

\* extractTokens: the tokens of handshake h found in the query of forwardUrl.
\* (NeedsBoth: an extractTokens that would mark newAuth only when both tokens
\* are there.)
ExtractTokensNeedsBoth(cur, fwd, h) ==
    IF ~fwd.query THEN cur
    ELSE [st1 |-> IF "ST1" \in fwd.keys THEN h ELSE cur.st1,
          st2 |-> IF "ST2" \in fwd.keys THEN h ELSE cur.st2,
          newAuth |-> IF fwd.keys = {"ST1", "ST2"} THEN TRUE ELSE cur.newAuth]
ExtractTokens(cur, fwd, h) ==
    IF ~fwd.query THEN cur
    ELSE [st1 |-> IF "ST1" \in fwd.keys THEN h ELSE cur.st1,
          st2 |-> IF "ST2" \in fwd.keys THEN h ELSE cur.st2,
          newAuth |-> IF fwd.keys # {} THEN TRUE ELSE cur.newAuth]

\* The failures of step 2.  (OnlyBadCredentials: a check "AuthResult == 1"
\* in place of "AuthResult != 0".)
LoginFailureOnlyBadCredentials(r) ==
    CASE r.t = "err" -> "login request failed"
      [] r.t = "badxml" -> "parsing login response"
      [] r.authResult = 1 -> "login failed"
      [] OTHER -> ""

LoginFailure(r) ==
    CASE r.t = "err" -> "login request failed"
      [] r.t = "badxml" -> "parsing login response"
      [] r.authResult # 0 -> "login failed"
      [] OTHER -> ""

LoginStep2(p, r) ==
    /\ pc[p] = "login2"
    /\ loginResp' = r
    /\ sessionResp' = NoSessionResp
    /\ IF LoginFailure(r) # ""
       THEN /\ LoginReturn(p, FALSE, LoginFailure(r))
            /\ UNCHANGED <<clientVars, valid, authed>>
       ELSE LET sid == IF r.setCookie THEN LoginIDOf(opn[p]) ELSE sessionID
                cur == [st1 |-> st1, st2 |-> st2, newAuth |-> newAuth]
                tok == IF r.fwd.empty THEN cur ELSE ExtractTokens(cur, r.fwd, opn[p])
            IN /\ sessionID' = sid
               /\ st1' = tok.st1
               /\ st2' = tok.st2
               /\ newAuth' = tok.newAuth
               /\ valid' = valid \cup {sid}
               /\ authed' = authed \cup {sid}
               /\ LoginReturn(p, TRUE, "")
    /\ UNCHANGED <<opn, sess0, opCount, queryVars, apiVars>>

\* -------------------------------------------------------------------- Logout
\* The four fields as Logout leaves them when its request was answered.
\* (KeepsTokens: a Logout that would clear the identifier only.)
LoggedOutKeepsTokens == [Session EXCEPT !.sessionID = 0]
LoggedOut == [sessionID |-> 0, st1 |-> 0, st2 |-> 0, newAuth |-> FALSE]

\* Under the lock: the logout request, and when it was answered, the clearing
\* of the four fields.
LogoutDo(p, o) ==
    /\ pc[p] = "logout"
    /\ IF o = "err"
       THEN /\ Return(p, Err("logout request failed", "", 0))
            /\ UNCHANGED <<clientVars, valid>>
       ELSE /\ sessionID' = LoggedOut.sessionID
            /\ st1' = LoggedOut.st1
            /\ st2' = LoggedOut.st2
            /\ newAuth' = LoggedOut.newAuth
            /\ valid' = valid \ {sessionID}
            /\ Return(p, Ok(0))
    /\ mu' = 0
    /\ UNCHANGED <<opn, log, sess0, authed, opCount, loginResp, sessionResp,
                   queryVars, apiVars>>

\* ------------------------------------------------------------ specification
Next ==
    \E p \in Procs :
        \/ \E k \in DataKinds : StartData(p, k)
        \/ \E name \in PowerNames : SetPowerByName(p, name)
        \/ StartLogin(p)
        \/ StartLogout(p)
        \/ Lock(p)
        \/ ApplySession(p)
        \/ \E o \in DataOutcomes : Do(p, o)
        \/ \E o \in Step1Outcomes : LoginStep1(p, o)
        \/ \E r \in LoginResponses : LoginStep2(p, r)
        \/ \E o \in {"ok", "err"} : LogoutDo(p, o)

Spec == Init /\ [][Next]_vars

\* Every network call returns, with a response, an error or a timeout
\* (http.Client.Timeout), and a caller waiting for c.mu gets it once it stays
\* free: a caller inside a call goes on whenever it can.
NetStep(p) ==
    \/ \E o \in DataOutcomes : Do(p, o)
    \/ \E o \in Step1Outcomes : LoginStep1(p, o)
    \/ \E r \in LoginResponses : LoginStep2(p, r)
    \/ \E o \in {"ok", "err"} : LogoutDo(p, o)

AcquireStep(p) == Lock(p) \/ ApplySession(p)

Fairness == \A p \in Procs : WF_vars(NetStep(p) \/ AcquireStep(p))

SpecLive == Init /\ [][Next]_vars /\ Fairness

\* A Client that logged in (operation 1) and whose session the controller has
\* dropped since; every caller then runs one data operation against a
\* controller that keeps its sessions, accepts the credentials and answers.
InitConc ==
    /\ sessionID \in {BootstrapIDOf(1), LoginIDOf(1)}
    /\ st1 \in {0, 1} /\ st2 \in {0, 1} /\ newAuth = (st1 # 0 \/ st2 # 0)
    /\ mu = 0
    /\ pc = [p \in Procs |-> "idle"]
    /\ kind = [p \in Procs |-> "none"]
    /\ opn = [p \in Procs |-> 0]
    /\ req = [p \in Procs |-> NoReq]
    /\ resp = [p \in Procs |-> NoResp]
    /\ result = [p \in Procs |-> NoResult]
    /\ log = [p \in Procs |-> <<>>]
    /\ sess0 = [p \in Procs |-> ClearedSession]
    /\ valid = {}
    /\ authed = {sessionID}
    /\ opCount = 1
    /\ loginResp = [t |-> "xml", authResult |-> 0, errorMsg |-> "",
                    setCookie |-> (sessionID = LoginIDOf(1)),
                    fwd |-> [empty |-> FALSE, query |-> TRUE,
                             keys |-> {k \in {"ST1", "ST2"} :
                                         IF k = "ST1" THEN st1 # 0 ELSE st2 # 0}]]
    /\ sessionResp = NoSessionResp
    /\ power = [p \in Procs |-> NoPower]
    /\ qcall = "none" /\ qat = "idle" /\ qgot = <<>> /\ qret = NoQueryResult
    /\ NoServer

\* Each caller of this run starts one operation.
StartConc(p, k) ==
    /\ pc[p] = "idle"
    /\ ApplySessionLocked
    /\ Begin(p, k, "do1")
    /\ req' = [req EXCEPT ![p] = AppliedRequest]
    /\ result' = [result EXCEPT ![p] = NoResult]
    /\ power' = [power EXCEPT ![p] = NoPower]
    /\ UNCHANGED <<clientVars, mu, valid, authed, loginResp, sessionResp,
                   queryVars, apiVars>>

NextConc ==
    \E p \in Procs :
        \/ \E k \in DataKinds : StartConc(p, k)
        \/ Lock(p)
        \/ ApplySession(p)
        \/ \E o \in ConformingOutcomes : Do(p, o)
        \/ \E o \in {"cookie", "raw"} : LoginStep1(p, o)
        \/ \E r \in AcceptingResponses : LoginStep2(p, r)

SpecConc == InitConc /\ [][NextConc]_vars

\* A Client that logged in before the run (handshake PriorHandshake), with
\* its session still known to the controller or dropped by it; the callers
\* then call SetPowerByName against a controller that keeps its sessions,
\* accepts the credentials and answers.
PriorHandshake == MaxOps + 1

InitPower ==
    /\ sessionID = LoginIDOf(PriorHandshake)
    /\ st1 \in {0, PriorHandshake} /\ st2 = st1 /\ newAuth = (st1 # 0)
    /\ mu = 0
    /\ pc = [p \in Procs |-> "idle"]
    /\ kind = [p \in Procs |-> "none"]
    /\ opn = [p \in Procs |-> 0]
    /\ req = [p \in Procs |-> NoReq]
    /\ resp = [p \in Procs |-> NoResp]
    /\ result = [p \in Procs |-> NoResult]
    /\ log = [p \in Procs |-> <<>>]
    /\ sess0 = [p \in Procs |-> ClearedSession]
    /\ valid \in {{}, {sessionID}}
    /\ authed = {sessionID}
    /\ opCount = 0
    /\ loginResp = [t |-> "xml", authResult |-> 0, errorMsg |-> "",
                    setCookie |-> TRUE,
                    fwd |-> [empty |-> FALSE, query |-> TRUE,
                             keys |-> IF st1 # 0 THEN {"ST1", "ST2"} ELSE {}]]
    /\ sessionResp = NoSessionResp
    /\ power = [p \in Procs |-> NoPower]
    /\ qcall = "none" /\ qat = "idle" /\ qgot = <<>> /\ qret = NoQueryResult
    /\ NoServer

NextPower ==
    \E p \in Procs :
        \/ \E name \in AllPowerNames : SetPowerByName(p, name)
        \/ Lock(p)
        \/ ApplySession(p)
        \/ \E o \in ConformingOutcomes : Do(p, o)
        \/ \E o \in {"cookie", "raw"} : LoginStep1(p, o)
        \/ \E r \in AcceptingResponses : LoginStep2(p, r)

SpecPower == InitPower /\ [][NextPower]_vars

\* ------------------------------------------------------------------ numbers
\* A float64 is a finite number, held in thousandths, or NaN, or an infinity.
Scale == 1000

Num(n) == [cls |-> "num", n |-> n]
NaN == [cls |-> "nan", n |-> 0]
Inf(sign) == [cls |-> "inf", n |-> sign]

Digits == {"0", "1", "2", "3", "4", "5", "6", "7", "8", "9"}

DigitVal(c) ==
    CASE c = "0" -> 0 [] c = "1" -> 1 [] c = "2" -> 2 [] c = "3" -> 3
      [] c = "4" -> 4 [] c = "5" -> 5 [] c = "6" -> 6 [] c = "7" -> 7
      [] c = "8" -> 8 [] c = "9" -> 9

RECURSIVE IntVal(_)
IntVal(s) ==
    IF s = <<>> THEN 0
    ELSE 10 * IntVal(SubSeq(s, 1, Len(s) - 1)) + DigitVal(s[Len(s)])

Unsigned(s) == IF s # <<>> /\ Head(s) \in {"+", "-"} THEN Tail(s) ELSE s
SignOf(s) == IF s # <<>> /\ Head(s) = "-" THEN -1 ELSE 1

\* strconv.ParseFloat's decimal mantissa: an optional sign, digits with at
\* most one point, at least one digit; ok tells whether s is one, n is its
\* value in thousandths.  (Texts with an exponent, a base prefix or an
\* underscore are not among the inputs.)
Decimal(s) ==
    LET u == Unsigned(s)
        point == Contains(u, ".")
        int == IF point THEN SubSeq(u, 1, IndexOf(u, ".") - 1) ELSE u
        frac == IF point THEN SubSeq(u, IndexOf(u, ".") + 1, Len(u)) ELSE <<>>
        allDigits(d) == \A i \in 1..Len(d) : d[i] \in Digits
        thousandths ==
            (IF Len(frac) >= 1 THEN 100 * DigitVal(frac[1]) ELSE 0)
                + (IF Len(frac) >= 2 THEN 10 * DigitVal(frac[2]) ELSE 0)
                + (IF Len(frac) >= 3 THEN DigitVal(frac[3]) ELSE 0)
    IN IF allDigits(int) /\ allDigits(frac) /\ Len(int) + Len(frac) >= 1
       THEN [ok |-> TRUE, n |-> SignOf(s) * (Scale * IntVal(int) + thousandths)]
       ELSE [ok |-> FALSE, n |-> 0]

\* strconv's special(): "nan" without a sign, "inf" or "infinity" with an
\* optional one, in any letter case.
IsNaNText(s) == ToLower(s) = <<"n", "a", "n">>
IsInfText(s) ==
    ToLower(Unsigned(s)) \in
        {<<"i", "n", "f">>, <<"i", "n", "f", "i", "n", "i", "t", "y">>}

\* strconv.ParseFloat(s, 64): the value, and whether err is nil.  A syntax
\* error comes with the value 0.
StrconvParseFloat(s) ==
    IF IsNaNText(s) THEN [v |-> NaN, ok |-> TRUE]
    ELSE IF IsInfText(s) THEN [v |-> Inf(SignOf(s)), ok |-> TRUE]
    ELSE IF Decimal(s).ok THEN [v |-> Num(Decimal(s).n), ok |-> TRUE]
    ELSE [v |-> Num(0), ok |-> FALSE]

\* parseFloat (sensors.go): blank and "N/A" are 0; otherwise what
\* strconv.ParseFloat returned, its error dropped.
ParseFloat(s) ==
    LET t == TrimSpace(s)
    IN IF t = <<>> \/ t = <<"N", "/", "A">> THEN Num(0)
       ELSE StrconvParseFloat(t).v

\* --------------------------------------------------------------- the queries
\* GetPowerState and GetSensors, over what c.Get returns to them: an error,
\* or a body that xml.Unmarshal accepts or not, with the pwState element it
\* holds ("absent" when it holds none), the <sensor> elements of its
\* structured list, the flat-text element it fills and that element's text,
\* and the system-information elements it holds.
SensorGroups == <<"temperatures", "fans", "voltages">>

PwStates == {"absent", "", "0", "1", "2", "on", " 1", "01"}

\* The elements GetSystemInfo asks for, and the SystemInfo field each fills.
SysInfoElements ==
    {"hostName", "sysDesc", "sysRev", "biosVer", "fwVersion", "LCCfwVersion",
     "osName", "svcTag"}

SystemInfoFields ==
    [hostname |-> "hostName", model |-> "sysDesc", serviceTag |-> "svcTag",
     biosVersion |-> "biosVer", fwVersion |-> "fwVersion",
     lccVersion |-> "LCCfwVersion", osName |-> "osName"]

NoBody ==
    [err |-> FALSE, wellformed |-> TRUE, pwState |-> "absent",
     structured |-> <<>>, flatFor |-> "", text |-> <<>>,
     elems |-> [e \in SysInfoElements |-> "absent"]]

PowerGets ==
    {[NoBody EXCEPT !.err = TRUE], [NoBody EXCEPT !.wellformed = FALSE]}
        \cup {[NoBody EXCEPT !.pwState = x] : x \in PwStates}

SensorGets ==
    {[NoBody EXCEPT !.err = TRUE], [NoBody EXCEPT !.wellformed = FALSE]}
        \cup {[NoBody EXCEPT !.structured = l, !.flatFor = f,
                             !.text = IF f = "" THEN <<>> ELSE <<"a", "=", "2">>] :
                l \in {<<>>, <<"cpu1">>}, f \in {"", "temperatures", "fans"}}

\* The texts of length n or less over an alphabet.
Texts(alphabet, n) == UNION {[1..k -> alphabet] : k \in 0..n}

\* The longest text enumerated over an alphabet.
MaxText == 4

\* "Inlet Temp=23;ok;42;47|Exhaust Temp=35;ok;70;75" (TestParseLegacySensors).
InletExhaust ==
    <<"I", "n", "l", "e", "t", " ", "T", "e", "m", "p", "=", "2", "3", ";",
      "o", "k", ";", "4", "2", ";", "4", "7", "|", "E", "x", "h", "a", "u",
      "s", "t", " ", "T", "e", "m", "p", "=", "3", "5", ";", "o", "k", ";",
      "7", "0", ";", "7", "5">>

\* The characters that matter to the flat-text sensor form, and the flat texts
\* a body holds.
SensorAlphabet == {"a", "2", " ", "=", ";", "|", "\n"}

FlatTexts == Texts(SensorAlphabet, MaxText) \cup {InletExhaust}

\* The entries parseSensorEntry is given: the short texts, the entries of
\* TestParseSensorEntry and one entry of each number of fields.
EntryTexts ==
    Texts(SensorAlphabet, MaxText)
        \cup {<<"I", "n", "l", "e", "t", " ", "T", "e", "m", "p", "=", "2", "3",
                ";", "o", "k", ";", "4", "2", ";", "4", "7">>,
              <<"F", "a", "n", "1", "=", "5", "4", "0", "0">>,
              <<"a", "=", "2", ";", "a">>,
              <<"a", "=", "2", ";", "a", ";", "2", "2">>,
              <<"a", "=", "2", ";", "a", ";", "2", ";", "a">>,
              <<" ", "a", " ", "=", " ", "2", ";", " ", "a", " ", ";", "2", ";",
                "2", "2", ";", "a", " ">>}

\* What c.Get("temperatures") returns to GetTemperatures.
TemperatureGets ==
    {[NoBody EXCEPT !.err = TRUE], [NoBody EXCEPT !.wellformed = FALSE]}
        \cup {[NoBody EXCEPT !.structured = l, !.flatFor = f, !.text = t] :
                l \in {<<>>, <<"cpu1">>}, f \in {"temperatures", "fans"},
                t \in FlatTexts}

\* The characters that matter to parseFloat, and the texts it is given.
FloatAlphabet == {"2", ".", "-", " ", "a", "N", "/", "A", "i", "n", "f"}

FloatTexts ==
    Texts(FloatAlphabet, MaxText)
        \cup {<<" ", "2", "3", " ">>, <<"3", ".", "1", "4">>, <<"4", "2">>,
              <<"a", "b", "c">>, <<"+", "i", "n", "f">>, <<"\t", "-", "2", ".", "5", "\n">>,
              <<"I", "n", "f", "i", "n", "i", "t", "y">>}

\* The lines of an event log that matter to its decoder, the most of them one
\* log holds, and the texts of the sel element.
SelLines ==
    {<<"1", "|", "t", "|", "s", "|", "d">>, <<"2", ";", "t", ";", "s", ";", "d">>,
     <<"|", "t", "|", "s", "|", "d">>, <<";", "t", ";", "s", ";", "d">>,
     <<"a", ";", "b", "|", "c", ";", "d", ";", "e", "|", "f", "|", "g">>,
     <<"1", "|", " ", "|", "s", "|", "d", "|", "e">>,
     <<"b", "o", "o", "t">>, <<"1", "|", "t", "|", "s">>, <<" ">>, <<>>}

MaxLines == 3

RECURSIVE JoinLines(_)
JoinLines(lines) ==
    IF Len(lines) = 0 THEN <<>>
    ELSE IF Len(lines) = 1 THEN lines[1]
    ELSE lines[1] \o <<"\n">> \o JoinLines(Tail(lines))

SelAlphabet == {"a", "|", ";", "\n", " "}

SelTexts ==
    Texts(SelAlphabet, MaxText)
        \cup {JoinLines(l) : l \in UNION {[1..k -> SelLines] : k \in 1..MaxLines}}

\* What c.Get("sel") returns to GetSEL.
SelGets ==
    {[NoBody EXCEPT !.err = TRUE], [NoBody EXCEPT !.wellformed = FALSE], NoBody}
        \cup {[NoBody EXCEPT !.flatFor = "sel", !.text = t] : t \in SelTexts}

\* What c.Get(hostName, ...) returns to GetSystemInfo.
SysInfoGets ==
    {[NoBody EXCEPT !.err = TRUE], [NoBody EXCEPT !.wellformed = FALSE]}
        \cup {[NoBody EXCEPT !.elems = f] :
                f \in [SysInfoElements -> {"absent", "", "R710"}]}

\* xml.Unmarshal into powerResponse.PwState: an absent element leaves "".
DecodePwState(x) == IF x = "absent" THEN "" ELSE x

\* PowerState.String.
PowerStateString(state) ==
    CASE state = PowerOff -> "off"
      [] state = PowerOn -> "on"
      [] OTHER -> "unknown"

\* GetPowerState's switch on resp.PwState.  (DefaultOff: a switch that would
\* start from PowerOff.)
PowerStateDefaultOff(pw) ==
    CASE pw = "1" -> PowerOn
      [] OTHER -> PowerOff
PowerStateOf(pw) ==
    CASE pw = "0" -> PowerOff
      [] pw = "1" -> PowerOn
      [] OTHER -> PowerInvalid

PowerStatusOf(g) ==
    IF g.err THEN [NoQueryResult EXCEPT !.err = "getting power state"]
    ELSE IF ~g.wellformed THEN [NoQueryResult EXCEPT !.err = "parsing power state"]
    ELSE LET state == PowerStateOf(DecodePwState(g.pwState))
         IN [NoQueryResult EXCEPT !.state = state,
                                  !.status = PowerStateString(state)]

\* GetPowerState: one Get, and the mapping of what it returned.
GetPowerState ==
    /\ qat = "idle"
    /\ \E g \in PowerGets :
       /\ qcall' = "GetPowerState"
       /\ qgot' = <<g>>
       /\ qret' = PowerStatusOf(g)
       /\ qat' = "done"
       /\ UNCHANGED sessionVars

\* sensorTypeUnit.
SensorTypeUnit(sensorType) ==
    CASE sensorType = "temperatures" -> "C"
      [] sensorType = "fans" -> "RPM"
      [] sensorType = "voltages" -> "V"
      [] OTHER -> ""

\* parseXMLSensors: one reading per <sensor> element.
ParseXMLSensors(sensors) ==
    [i \in 1..Len(sensors) |-> [name |-> sensors[i], unit |-> "xml"]]

\* extractRawSensorString: the text of the element named like the sensor
\* type, "" when the body has none or does not parse.
ExtractRawSensorString(g, sensorType) ==
    IF g.wellformed /\ g.flatFor = sensorType THEN g.text ELSE <<>>

\* splitSensors: nothing for a blank text; else the pieces between pipes
\* when there is a pipe, else the lines when there is a newline, else the
\* text itself.  (NewlineFirst: a detection that would look for a newline
\* before it looks for a pipe.)
SplitSensorsNewlineFirst(raw) ==
    LET t == TrimSpace(raw)
    IN IF t = <<>> THEN <<>>
       ELSE IF Contains(t, "\n") THEN Split(t, "\n")
       ELSE IF Contains(t, "|") THEN Split(t, "|")
       ELSE <<t>>
SplitSensors(raw) ==
    LET t == TrimSpace(raw)
    IN IF t = <<>> THEN <<>>
       ELSE IF Contains(t, "|") THEN Split(t, "|")
       ELSE IF Contains(t, "\n") THEN Split(t, "\n")
       ELSE <<t>>

\* The zero SensorReading.
NoReading ==
    [name |-> <<>>, value |-> Num(0), unit |-> "", status |-> <<>>,
     warning |-> Num(0), critical |-> Num(0)]

\* parseSensorEntry: name=value;status;warning;critical, the fields after
\* the value optional; an entry without "=" is a name.  (AllOrNothing: a
\* decoder that would read the fields after the value only when all three
\* are there.)
ParseSensorEntryAllOrNothing(entry, unit) ==
    LET e == TrimSpace(entry)
        parts == SplitN(e, "=", 2)
        fields == Split(parts[2], ";")
        r == [NoReading EXCEPT !.unit = unit, !.status = <<"o", "k">>]
    IN IF e = <<>> THEN NoReading
       ELSE IF Len(parts) = 2
            THEN [r EXCEPT
                    !.name = TrimSpace(parts[1]),
                    !.value = ParseFloat(fields[1]),
                    !.status = IF Len(fields) >= 4 THEN TrimSpace(fields[2]) ELSE @,
                    !.warning = IF Len(fields) >= 4 THEN ParseFloat(fields[3]) ELSE @,
                    !.critical = IF Len(fields) >= 4 THEN ParseFloat(fields[4]) ELSE @]
       ELSE [r EXCEPT !.name = e]
ParseSensorEntry(entry, unit) ==
    LET e == TrimSpace(entry)
        parts == SplitN(e, "=", 2)
        fields == Split(parts[2], ";")
        r == [NoReading EXCEPT !.unit = unit, !.status = <<"o", "k">>]
    IN IF e = <<>> THEN NoReading
       ELSE IF Len(parts) = 2
            THEN [r EXCEPT
                    !.name = TrimSpace(parts[1]),
                    !.value = ParseFloat(fields[1]),
                    !.status = IF Len(fields) >= 2 THEN TrimSpace(fields[2]) ELSE @,
                    !.warning = IF Len(fields) >= 3 THEN ParseFloat(fields[3]) ELSE @,
                    !.critical = IF Len(fields) >= 4 THEN ParseFloat(fields[4]) ELSE @]
       ELSE [r EXCEPT !.name = e]

\* parseLegacySensors keeps a reading when its name is not empty.  (Always:
\* a decoder that would keep every entry.)
KeepReadingAlways(r) == TRUE
KeepReading(r) == r.name # <<>>

\* parseLegacySensors: the readings of the entries, in their order.
ParseLegacySensors(raw, unit) ==
    LET entries == SplitSensors(raw)
        readings == [i \in 1..Len(entries) |-> ParseSensorEntry(entries[i], unit)]
    IN SelectSeq(readings, KeepReading)

\* getSensorType: the Get's error, else the structured list when it has an
\* entry, else the flat text when there is one, else nothing.  (FlatFirst: a
\* decoder that would try the flat text before the structured list.)
GetSensorTypeFlatFirst(sensorType, g) ==
    IF g.err THEN [err |-> "getting sensors", list |-> <<>>]
    ELSE IF ExtractRawSensorString(g, sensorType) # <<>>
         THEN [err |-> "", list |-> ParseLegacySensors(
                    ExtractRawSensorString(g, sensorType),
                    SensorTypeUnit(sensorType))]
    ELSE IF g.wellformed /\ Len(g.structured) > 0
         THEN [err |-> "", list |-> ParseXMLSensors(g.structured)]
    ELSE [err |-> "", list |-> <<>>]
GetSensorType(sensorType, g) ==
    IF g.err THEN [err |-> "getting sensors", list |-> <<>>]
    ELSE IF g.wellformed /\ Len(g.structured) > 0
         THEN [err |-> "", list |-> ParseXMLSensors(g.structured)]
    ELSE IF ExtractRawSensorString(g, sensorType) # <<>>
         THEN [err |-> "", list |-> ParseLegacySensors(
                    ExtractRawSensorString(g, sensorType),
                    SensorTypeUnit(sensorType))]
    ELSE [err |-> "", list |-> <<>>]

\* GetTemperatures: getSensorType("temperatures").
GetTemperatures ==
    /\ qat = "idle"
    /\ \E g \in TemperatureGets :
       /\ qcall' = "GetTemperatures"
       /\ qgot' = <<g>>
       /\ qret' = [NoQueryResult EXCEPT
                     !.err = GetSensorType("temperatures", g).err,
                     !.temperatures = GetSensorType("temperatures", g).list]
       /\ qat' = "done"
       /\ UNCHANGED sessionVars

\* GetSensors after a sub-query: the group is set when err == nil, and the
\* call itself goes on without an error.  (Propagated: a GetSensors that
\* would hand a sub-query's error to its caller.)
SubQueryErrorPropagated(sub) == sub.err
SubQueryError(sub) == ""

GroupAfter(sub, old) == IF sub.err = "" THEN sub.list ELSE old

StartSensors ==
    /\ qat = "idle"
    /\ qcall' = "GetSensors"
    /\ qgot' = <<>>
    /\ qret' = NoQueryResult
    /\ qat' = SensorGroups[1]
    /\ UNCHANGED sessionVars

\* One sub-query of GetSensors, in the order of SensorGroups.
SensorStep ==
    /\ qcall = "GetSensors"
    /\ \E g \in SensorGets :
       /\ \E i \in 1..Len(SensorGroups) :
             /\ qat = SensorGroups[i]
             /\ LET sub == GetSensorType(SensorGroups[i], g)
                IN qret' = [qret EXCEPT
                             ![SensorGroups[i]] = GroupAfter(sub, @),
                             !.err = IF @ # "" THEN @ ELSE SubQueryError(sub)]
             /\ qat' = IF i < Len(SensorGroups) THEN SensorGroups[i + 1] ELSE "done"
       /\ qgot' = Append(qgot, g)
       /\ UNCHANGED <<qcall, sessionVars>>

\* parseFloat, called on a text.
ParseFloatCall ==
    /\ qat = "idle"
    /\ \E s \in FloatTexts :
       /\ qcall' = "parseFloat"
       /\ qgot' = <<s>>
       /\ qret' = [NoQueryResult EXCEPT !.value = ParseFloat(s)]
       /\ qat' = "done"
       /\ UNCHANGED sessionVars

\* splitSensors, called on a text.
SplitSensorsCall ==
    /\ qat = "idle"
    /\ \E raw \in FlatTexts :
       /\ qcall' = "splitSensors"
       /\ qgot' = <<raw>>
       /\ qret' = [NoQueryResult EXCEPT !.split = SplitSensors(raw)]
       /\ qat' = "done"
       /\ UNCHANGED sessionVars

\* parseSensorEntry, called on an entry and a unit.
ParseSensorEntryCall ==
    /\ qat = "idle"
    /\ \E entry \in EntryTexts, unit \in {"C", "RPM"} :
       /\ qcall' = "parseSensorEntry"
       /\ qgot' = <<entry, unit>>
       /\ qret' = [NoQueryResult EXCEPT !.reading = ParseSensorEntry(entry, unit)]
       /\ qat' = "done"
       /\ UNCHANGED sessionVars

\* The zero SELEntry.
NoEntry == [id |-> <<>>, timestamp |-> <<>>, severity |-> <<>>, description |-> <<>>]

\* The SELEntry of four fields.
FieldsEntry(parts) ==
    [id |-> TrimSpace(parts[1]), timestamp |-> TrimSpace(parts[2]),
     severity |-> TrimSpace(parts[3]), description |-> TrimSpace(parts[4])]

\* The SELEntry of a line that has no four fields.
FallbackEntry(line) ==
    [NoEntry EXCEPT !.id = <<"0">>, !.description = line,
                    !.severity = <<"U", "n", "k", "n", "o", "w", "n">>]

\* parseSELLine: four fields between pipes, else four fields between
\* semicolons, else the line as a description.  (SemicolonFirst: a decoder
\* that would try the semicolons before the pipes.)
ParseSELLineSemicolonFirst(line) ==
    IF Len(SplitN(line, ";", 4)) >= 4 THEN FieldsEntry(SplitN(line, ";", 4))
    ELSE IF Len(SplitN(line, "|", 4)) >= 4 THEN FieldsEntry(SplitN(line, "|", 4))
    ELSE FallbackEntry(line)
ParseSELLine(line) ==
    IF Len(SplitN(line, "|", 4)) >= 4 THEN FieldsEntry(SplitN(line, "|", 4))
    ELSE IF Len(SplitN(line, ";", 4)) >= 4 THEN FieldsEntry(SplitN(line, ";", 4))
    ELSE FallbackEntry(line)

\* parseSEL keeps an entry when its ID is not empty.  (Always: a decoder that
\* would keep every entry.)
KeepEntryAlways(entry) == TRUE
KeepEntry(entry) == entry.id # <<>>

\* parseSEL: the entries of the lines that are not blank, in their order.
ParseSEL(raw) ==
    LET lines == Split(TrimSpace(raw), "\n")
        trimmed == [i \in 1..Len(lines) |-> TrimSpace(lines[i])]
        entries == [i \in 1..Len(lines) |->
                        IF trimmed[i] = <<>> THEN NoEntry ELSE ParseSELLine(trimmed[i])]
        kept == {i \in 1..Len(lines) : trimmed[i] # <<>> /\ KeepEntry(entries[i])}
    IN IF TrimSpace(raw) = <<>> THEN <<>>
       ELSE LET RECURSIVE from(_)
                from(i) == IF i > Len(lines) THEN <<>>
                           ELSE (IF i \in kept THEN <<entries[i]>> ELSE <<>>)
                                    \o from(i + 1)
            IN from(1)

\* xml.Unmarshal into selResponse.SEL: an absent element leaves "".
DecodeSEL(g) == IF g.flatFor = "sel" THEN g.text ELSE <<>>

\* SELData.TotalCount: len(entries).  (Lines: a count of the lines of the
\* log, also of those that gave no entry.)
TotalCountLines(raw, entries) == Len(Split(raw, "\n"))
TotalCount(raw, entries) == Len(entries)

\* GetSEL: one Get, and the entries of what it returned.
GetSEL ==
    /\ qat = "idle"
    /\ \E g \in SelGets :
       /\ qcall' = "GetSEL"
       /\ qgot' = <<g>>
       /\ qret' = IF g.err THEN [NoQueryResult EXCEPT !.err = "getting SEL"]
                  ELSE IF ~g.wellformed THEN [NoQueryResult EXCEPT !.err = "parsing SEL"]
                  ELSE [NoQueryResult EXCEPT
                           !.entries = ParseSEL(DecodeSEL(g)),
                           !.totalCount = TotalCount(DecodeSEL(g),
                                                     ParseSEL(DecodeSEL(g)))]
       /\ qat' = "done"
       /\ UNCHANGED sessionVars

\* xml.Unmarshal into a string field of sysInfoResponse: an absent element
\* leaves "".  (Kept: a decoder that would tell an absent element apart.)
DecodeElementKept(x) == x
DecodeElement(x) == IF x = "absent" THEN "" ELSE x

\* GetSystemInfo: one Get, and the fields of what it returned.
GetSystemInfo ==
    /\ qat = "idle"
    /\ \E g \in SysInfoGets :
       /\ qcall' = "GetSystemInfo"
       /\ qgot' = <<g>>
       /\ qret' =
            IF g.err THEN [NoQueryResult EXCEPT !.err = "getting system info"]
            ELSE IF ~g.wellformed
                 THEN [NoQueryResult EXCEPT !.err = "parsing system info"]
            ELSE [NoQueryResult EXCEPT
                    !.info = [f \in DOMAIN SystemInfoFields |->
                                DecodeElement(g.elems[SystemInfoFields[f]])]]
       /\ qat' = "done"
       /\ UNCHANGED sessionVars

\* The caller has its answer; the next query starts afresh.
QueryReturn ==
    /\ qat = "done"
    /\ qcall' = "none"
    /\ qgot' = <<>>
    /\ qret' = NoQueryResult
    /\ qat' = "idle"
    /\ UNCHANGED sessionVars

NextQuery ==
    \/ QueryReturn
    \/ GetPowerState
    \/ StartSensors
    \/ SensorStep
    \/ GetTemperatures
    \/ ParseFloatCall
    \/ SplitSensorsCall
    \/ ParseSensorEntryCall
    \/ GetSEL
    \/ GetSystemInfo

SpecQuery == Init /\ [][NextQuery]_vars

\* ---------------------------------------------------- queries on the wire
\* The Gets one caller's queries run, each through doWithRetry.
MaxGets == 3

\* The caller of the queries: the first one.
Caller == CHOOSE p \in Procs : \A q \in Procs : p <= q

\* The data keys of the Gets of a query, in the order it issues them:
\* GetSensors asks for one sensor type after the other, GetSystemInfo and
\* GetPowerState ask once.
GetsOf(call) ==
    CASE call = "GetSensors" ->
            [i \in 1..Len(SensorGroups) |-> <<SensorGroups[i]>>]
      [] call = "GetSystemInfo" ->
            <<<<"hostName", "sysDesc", "sysRev", "biosVer", "fwVersion",
                "LCCfwVersion", "osName", "svcTag">>>>
      [] call = "GetPowerState" -> <<<<"pwState">>>>

\* strings.Join(keys, ","), a text being the sequence of its pieces.
RECURSIVE Join(_, _)
Join(keys, sep) ==
    IF keys = <<>> THEN <<>>
    ELSE IF Len(keys) = 1 THEN <<keys[1]>>
    ELSE <<keys[1], sep>> \o Join(Tail(keys), sep)

\* Get's reqURL after the base URL: "/data?get=" and the keys, joined by
\* commas.  (FirstKey: a Get that would ask for one key at a time.)
GetURLFirstKey(keys) == <<"/data?get=", keys[1]>>
GetURL(keys) == <<"/data?get=">> \o Join(keys, ",")

\* A query is called: nothing is on the wire yet.
StartQuery ==
    /\ qat = "idle"
    /\ pc[Caller] \in {"idle", "done"}
    /\ \E call \in {"GetSensors", "GetSystemInfo", "GetPowerState"} :
       /\ opCount + Len(GetsOf(call)) <= MaxGets
       /\ qcall' = call
    /\ qgot' = <<>>
    /\ qret' = NoQueryResult
    /\ qat' = "get"
    /\ UNCHANGED sessionVars

\* c.Get(keys...): the call of doWithRetry, whose first fn() call builds the
\* request for the query's next keys and applies the session to it.
Get ==
    /\ qat = "get"
    /\ ApplySessionLocked
    /\ Begin(Caller, "Get", "do1")
    /\ req' = [req EXCEPT ![Caller] = AppliedRequest]
    /\ result' = [result EXCEPT ![Caller] = NoResult]
    /\ power' = [power EXCEPT ![Caller] = NoPower]
    /\ qgot' = Append(qgot, [keys |-> GetsOf(qcall)[Len(qgot) + 1],
                             url |-> GetURL(GetsOf(qcall)[Len(qgot) + 1]),
                             log |-> <<>>, err |-> ""])
    /\ qat' = "wait"
    /\ UNCHANGED <<clientVars, mu, valid, authed, loginResp, sessionResp,
                   qcall, qret, apiVars>>

\* Get has returned: GetSensors goes on to its next Get whatever the Get
\* returned, and the query returns after its last Get.
GetReturn ==
    /\ qat = "wait"
    /\ pc[Caller] = "done"
    /\ qgot' = [qgot EXCEPT ![Len(qgot)] =
                  [@ EXCEPT !.log = log[Caller], !.err = result[Caller].err]]
    /\ qat' = IF Len(qgot) < Len(GetsOf(qcall)) THEN "get" ELSE "done"
    /\ UNCHANGED <<qcall, qret, sessionVars>>

NextGets ==
    \/ StartQuery
    \/ Get
    \/ GetReturn
    \/ QueryReturn
    \/ Lock(Caller)
    \/ ApplySession(Caller)
    \/ \E o \in DataOutcomes : Do(Caller, o)
    \/ \E o \in Step1Outcomes : LoginStep1(Caller, o)
    \/ \E r \in LoginResponses : LoginStep2(Caller, r)

SpecGets == Init /\ [][NextGets]_vars

\* ------------------------------------------------------------ the HTTP API
\* NewRouter's routes under /api, those under /api/hosts/{hostID} among them.
Routes == {"/health", "/hosts", "/hosts/{hostID}/power", "/hosts/{hostID}/virtualmedia"}
HostRoutes == {"/hosts/{hostID}/power", "/hosts/{hostID}/virtualmedia"}

\* The host ids of the requests: one that the configurations hold, one that
\* none holds.
HostIDs == {"r710", "ghost"}

\* The configurations the router is built with: no host, or the hosts r710
\* and r610, r710 under either of two credentials; an API key or none.
HostConfigOf(name, host, username, password) ==
    [name |-> name, host |-> host, username |-> username, password |-> password]

HostMaps ==
    {<<>>}
        \cup {[id \in {"r710", "r610"} |->
                    IF id = "r710" THEN c
                    ELSE HostConfigOf("Rack", "10.0.0.2", "root", "calvin")] :
                c \in {HostConfigOf("Lab", "10.0.0.1", "root", "calvin"),
                       HostConfigOf("Lab", "10.0.0.1", "admin", "s3cret")}}

Configs == {[hosts |-> m, apiKey |-> k] : m \in HostMaps, k \in {"", "secret-key"}}

\* The requests: a route, the host id of its path, and at most one of the
\* X-API-Key and Authorization headers, the latter as its scheme and its
\* token.
NoAuthorization == [scheme |-> "", token |-> ""]

Headers ==
    {[xApiKey |-> x, authorization |-> NoAuthorization] :
        x \in {"", "secret-key", "wrong"}}
        \cup {[xApiKey |-> "", authorization |-> [scheme |-> "Bearer", token |-> t]] :
                t \in {"secret-key", "wrong"}}

HttpRequests ==
    {[route |-> r, hostID |-> IF r \in HostRoutes THEN id ELSE "",
      xApiKey |-> hd.xApiKey, authorization |-> hd.authorization,
      body |-> NoHost] :
        r \in Routes, id \in HostIDs, hd \in Headers}

\* NewRouter installs apiKeyAuth on /api only when an API key is configured.
\* (Always: a router that would install it without one.)
AuthInstalledAlways(cfg) == TRUE
AuthInstalled(cfg) == cfg.apiKey # ""

\* apiKeyAuth lets a request through when it presents the key in X-API-Key
\* or as a Bearer token.
PresentsKey(r, key) ==
    \/ r.xApiKey = key
    \/ r.authorization = [scheme |-> "Bearer", token |-> key]

\* hostCtx's lookup h.config.Hosts[hostID].  (Always: a middleware that
\* would let every host id through.)
HostKnownAlways(cfg, id) == TRUE
HostKnown(cfg, id) == id \in DOMAIN cfg.hosts

\* Where a request goes once it is under /api: through hostCtx for a route
\* under /hosts/{hostID}, else to its handler.
Routed(r) == IF r.route \in HostRoutes THEN "hostCtx" ELSE "handler"

\* writeJSON: the status and body of the response, and no further step.
Respond(h, status, body) ==
    /\ hresp' = [hresp EXCEPT ![h] = [status |-> status, body |-> body]]
    /\ hpc' = [hpc EXCEPT ![h] = "done"]

Ran(h, step) == hlog' = [hlog EXCEPT ![h] = Append(@, step)]

\* The router takes a request, one of reqs.
Serve(h, reqs) ==
    /\ hpc[h] \in {"idle", "done"}
    /\ \E r \in reqs :
          /\ hreq' = [hreq EXCEPT ![h] = r]
          /\ hpc' = [hpc EXCEPT ![h] =
                        IF AuthInstalled(config) THEN "apiKeyAuth" ELSE Routed(r)]
    /\ hresp' = [hresp EXCEPT ![h] = NoResponse]
    /\ hlog' = [hlog EXCEPT ![h] = <<>>]
    /\ hclient' = [hclient EXCEPT ![h] = NoClient]
    /\ UNCHANGED <<config, clients, vmedia, idracVars>>

\* apiKeyAuth: 401 without the key, else the next handler.
ApiKeyAuth(h) ==
    /\ hpc[h] = "apiKeyAuth"
    /\ Ran(h, "apiKeyAuth")
    /\ IF PresentsKey(hreq[h], config.apiKey)
       THEN hpc' = [hpc EXCEPT ![h] = Routed(hreq[h])] /\ UNCHANGED hresp
       ELSE Respond(h, 401, <<>>)
    /\ UNCHANGED <<config, clients, vmedia, hreq, hclient, idracVars>>

\* hostCtx: 404 for a host id the configuration does not have, else the
\* next handler.
HostCtx(h) ==
    /\ hpc[h] = "hostCtx"
    /\ Ran(h, "hostCtx")
    /\ IF HostKnown(config, hreq[h].hostID)
       THEN hpc' = [hpc EXCEPT ![h] = "handler"] /\ UNCHANGED hresp
       ELSE Respond(h, 404, <<>>)
    /\ UNCHANGED <<config, clients, vmedia, hreq, hclient, idracVars>>

\* Health.
Health(h) ==
    /\ hpc[h] = "handler" /\ hreq[h].route = "/health"
    /\ Ran(h, "Health")
    /\ Respond(h, 200, <<>>)
    /\ UNCHANGED <<config, clients, vmedia, hreq, hclient, idracVars>>

\* ListHosts' hostInfo of a host.  (WithCredentials: a listing that would
\* copy the whole HostConfig.)
HostInfoWithCredentials(id, cfg) ==
    [id |-> id, name |-> cfg.name, host |-> cfg.host,
     username |-> cfg.username, password |-> cfg.password]
HostInfo(id, cfg) == [id |-> id, name |-> cfg.name, host |-> cfg.host]

\* The orders a range over a map with these keys can take.
Orders(keys) ==
    {o \in [1..Cardinality(keys) -> keys] :
        \A i, j \in 1..Cardinality(keys) : i # j => o[i] # o[j]}

\* ListHosts: the hostInfo of every configured host, in the order of the
\* range over the map.
ListHosts(h) ==
    /\ hpc[h] = "handler" /\ hreq[h].route = "/hosts"
    /\ Ran(h, "ListHosts")
    /\ \E o \in Orders(DOMAIN config.hosts) :
          Respond(h, 200, [i \in 1..Len(o) |-> HostInfo(o[i], config.hosts[o[i]])])
    /\ UNCHANGED <<config, clients, vmedia, hreq, hclient, idracVars>>

\* idrac.NewClient(hostCfg.Host, hostCfg.Username, hostCfg.Password), made
\* for request by, and idrac.NewVirtualMedia of the same.  The handler's
\* variable holds the Client until the handler returns.
NewClient(cfg, by) ==
    [host |-> cfg.host, username |-> cfg.username, password |-> cfg.password,
     by |-> by]
NewVirtualMedia(cfg) ==
    [host |-> cfg.host, username |-> cfg.username, password |-> cfg.password]

\* sync.Map: Load finds an entry, Store sets or replaces it.
Loaded(map, key) == key \in DOMAIN map
Store(map, key, value) ==
    [k \in DOMAIN map \cup {key} |-> IF k = key THEN value ELSE map[k]]

\* getClient's h.clients.Load(hostID): the stored Client is returned when
\* there is one.  (Never: a getClient that would not look.)
CachedNever(map, key) == FALSE
Cached(map, key) == Loaded(map, key)

\* getClient stores the Client when its Login succeeded.  (Always: a
\* getClient that would store it before the login.)
StoredAlways(ok) == TRUE
StoredAfterLogin(ok) == ok

\* GetPower and the other handlers that start with getClient: the stored
\* Client when there is one, else a new Client for the configured host.
GetClient(h) ==
    /\ hpc[h] = "handler" /\ hreq[h].route = "/hosts/{hostID}/power"
    /\ IF Cached(clients, hreq[h].hostID)
       THEN /\ Ran(h, "GetPower")
            /\ hclient' = [hclient EXCEPT ![h] = clients[hreq[h].hostID]]
            /\ hpc' = [hpc EXCEPT ![h] = "op"] /\ UNCHANGED hresp
       ELSE IF hreq[h].hostID \notin DOMAIN config.hosts
       THEN /\ Ran(h, "GetPower")
            /\ Respond(h, 500, <<>>)
            /\ UNCHANGED hclient
       ELSE /\ hlog' = [hlog EXCEPT ![h] = @ \o <<"GetPower", "NewClient">>]
            /\ hclient' = [hclient EXCEPT ![h] =
                             NewClient(config.hosts[hreq[h].hostID], h)]
            /\ hpc' = [hpc EXCEPT ![h] = "login"] /\ UNCHANGED hresp
    /\ UNCHANGED <<config, clients, vmedia, hreq, idracVars>>

\* getClient's client.Login(): 500 when it fails, else the Client is stored.
ClientLogin(h) ==
    /\ hpc[h] = "login"
    /\ \E ok \in BOOLEAN :
          /\ clients' = IF StoredAfterLogin(ok)
                        THEN Store(clients, hreq[h].hostID, hclient[h])
                        ELSE clients
          /\ IF ok
             THEN /\ hlog' = [hlog EXCEPT ![h] = @ \o <<"Login", "Store">>]
                  /\ hpc' = [hpc EXCEPT ![h] = "op"] /\ UNCHANGED hresp
             ELSE /\ Ran(h, "Login")
                  /\ Respond(h, 500, <<>>)
          /\ hclient' = IF ok THEN hclient ELSE [hclient EXCEPT ![h] = NoClient]
    /\ UNCHANGED <<config, vmedia, hreq, idracVars>>

\* The handler's call on the Client, and its answer.
ClientOp(h) ==
    /\ hpc[h] = "op"
    /\ \E status \in {200, 500} : Respond(h, status, <<>>)
    /\ hclient' = [hclient EXCEPT ![h] = NoClient]
    /\ UNCHANGED <<config, clients, vmedia, hreq, hlog, idracVars>>

\* GetVirtualMedia and the other handlers that start with getVMedia: the
\* stored manager when there is one, else a new one, stored; then its answer.
VirtualMedia(h) ==
    /\ hpc[h] = "handler" /\ hreq[h].route = "/hosts/{hostID}/virtualmedia"
    /\ Ran(h, "GetVirtualMedia")
    /\ IF Loaded(vmedia, hreq[h].hostID)
       THEN /\ \E status \in {200, 500} : Respond(h, status, <<>>)
            /\ UNCHANGED vmedia
       ELSE IF hreq[h].hostID \in DOMAIN config.hosts
       THEN /\ vmedia' = Store(vmedia, hreq[h].hostID,
                               NewVirtualMedia(config.hosts[hreq[h].hostID]))
            /\ \E status \in {200, 500} : Respond(h, status, <<>>)
       ELSE /\ Respond(h, 500, <<>>)
            /\ UNCHANGED vmedia
    /\ UNCHANGED <<config, clients, hreq, hclient, idracVars>>

\* NewRouter(cfg): the Client of the session model stays as constructed.
InitApi ==
    /\ sessionID = 0 /\ st1 = 0 /\ st2 = 0 /\ newAuth = FALSE
    /\ mu = 0
    /\ pc = [p \in Procs |-> "idle"]
    /\ kind = [p \in Procs |-> "none"]
    /\ opn = [p \in Procs |-> 0]
    /\ req = [p \in Procs |-> NoReq]
    /\ resp = [p \in Procs |-> NoResp]
    /\ result = [p \in Procs |-> NoResult]
    /\ log = [p \in Procs |-> <<>>]
    /\ sess0 = [p \in Procs |-> ClearedSession]
    /\ valid = {}
    /\ authed = {}
    /\ opCount = 0
    /\ loginResp = NoLogin
    /\ sessionResp = NoSessionResp
    /\ power = [p \in Procs |-> NoPower]
    /\ qcall = "none" /\ qat = "idle" /\ qgot = <<>> /\ qret = NoQueryResult
    /\ config \in Configs
    /\ clients = <<>> /\ vmedia = <<>>
    /\ hpc = [h \in Requests |-> "idle"]
    /\ hreq = [h \in Requests |-> NoRequest]
    /\ hresp = [h \in Requests |-> NoResponse]
    /\ hlog = [h \in Requests |-> <<>>]
    /\ hclient = [h \in Requests |-> NoClient]

NextApi ==
    \E h \in Requests :
        \/ Serve(h, HttpRequests)
        \/ ApiKeyAuth(h)
        \/ HostCtx(h)
        \/ Health(h)
        \/ ListHosts(h)
        \/ GetClient(h)
        \/ ClientLogin(h)
        \/ ClientOp(h)
        \/ VirtualMedia(h)

SpecApi == InitApi /\ [][NextApi]_vars

\* ----------------------------------------------------- hosts at runtime
\* The bodies of POST /api/hosts: r710 again at another address and under
\* other credentials, a body without its host, a host the router has not.
HostBodies ==
    {[id |-> "r710", name |-> "Lab", host |-> "10.0.0.9", username |-> "admin",
      password |-> "s3cret"],
     [id |-> "r710", name |-> "Lab", host |-> "", username |-> "admin",
      password |-> "s3cret"],
     [id |-> "ghost", name |-> "Spare", host |-> "10.0.0.3", username |-> "root",
      password |-> "calvin"]}

\* The requests of a router without an API key: the power and the virtual
\* media of a host, and the addition of a host.
HostRequests ==
    {[NoRequest EXCEPT !.route = r, !.hostID = id] :
        r \in HostRoutes, id \in HostIDs}
        \cup {[NoRequest EXCEPT !.route = "POST /hosts", !.body = b] :
                b \in HostBodies}

\* AddHost's check of the body: id, host, username and password are
\* required.
Complete(b) == b.id # "" /\ b.host # "" /\ b.username # "" /\ b.password # ""

\* The steps of the other handlers that read h.config.Hosts next.
ReadsHosts(k) == hpc[k] \in {"hostCtx", "handler"} /\ hreq[k].route \in HostRoutes

\* AddHost: 400 for a body that lacks a required field, else the host is
\* written into h.config.Hosts, over the entry the id had, and the answer is
\* 201; h.clients and h.vmedia are left as they are.  The map is written
\* without a lock: when another handler is about to read it, the runtime may
\* end the process with "concurrent map read and map write".
AddHost(h) ==
    /\ hpc[h] = "handler" /\ hreq[h].route = "POST /hosts"
    /\ \/ /\ Ran(h, "AddHost")
          /\ IF Complete(hreq[h].body)
             THEN /\ config' = [config EXCEPT !.hosts =
                                  Store(@, hreq[h].body.id,
                                        HostConfigOf(hreq[h].body.name,
                                                     hreq[h].body.host,
                                                     hreq[h].body.username,
                                                     hreq[h].body.password))]
                  /\ Respond(h, 201, <<>>)
             ELSE /\ Respond(h, 400, <<>>)
                  /\ UNCHANGED config
       \/ /\ Complete(hreq[h].body)
          /\ \E k \in Requests \ {h} : ReadsHosts(k)
          /\ hpc' = [k \in Requests |-> "crashed"]
          /\ UNCHANGED <<config, hresp, hlog>>
    /\ UNCHANGED <<clients, vmedia, hreq, hclient, idracVars>>

\* NewRouter with the hosts r710 and r610 and no API key.
InitRegistry ==
    /\ InitApi
    /\ config.apiKey = ""
    /\ config.hosts # <<>>
    /\ config.hosts["r710"].username = "root"

NextRegistry ==
    \E h \in Requests :
        \/ Serve(h, HostRequests)
        \/ HostCtx(h)
        \/ AddHost(h)
        \/ GetClient(h)
        \/ ClientLogin(h)
        \/ ClientOp(h)
        \/ VirtualMedia(h)

SpecRegistry == InitRegistry /\ [][NextRegistry]_vars

\* ------------------------------------------------------------------- claims
IsSend(e) == e \in SendEvents
Sends(p) == SelectSeq(log[p], IsSend)
Logged(p, e) == \E i \in 1..Len(log[p]) : log[p][i] = e
OthersIdle(p) == \A q \in Procs \ {p} : pc[q] = "idle"

\* C1: an operation whose first response is 401, whose re-login succeeds and
\* whose replay is answered 200 has run exactly one handshake, sent its
\* request exactly twice, and returns the body of the second response.
C1_RetryReturnsReplay ==
    \A p \in Procs :
        (Len(Sends(p)) >= 2 /\ Sends(p)[1] = "401" /\ Sends(p)[2] = "200"
            /\ Logged(p, "hsok"))
        => /\ pc[p] = "done"
           /\ HandshakeCount(p) = 1
           /\ SendCount(p) = 2
           /\ result[p] = Ok(BodyOf(opn[p], 2))
           /\ result[p].body # BodyOf(opn[p], 1)

C1_Witness ==
    \E p \in Procs :
        /\ pc[p] = "done"
        /\ log[p] = <<"401", "hsok", "200">>
        /\ result[p].ok

\* C2: whatever the controller answers, one operation sends its request at
\* most twice and runs at most one handshake; when the request and its replay
\* are both answered 401 the operation has returned, with the error of the
\* second 401.
C2_SecondUnauthorizedIsTerminal ==
    \A p \in Procs :
        /\ SendCount(p) <= 2
        /\ HandshakeCount(p) <= 1
        /\ (Len(Sends(p)) >= 2 /\ Sends(p)[1] = "401" /\ Sends(p)[2] = "401")
            => /\ pc[p] = "done"
               /\ result[p] = Err("unexpected status", "", StatusUnauthorized)

C2_Witness ==
    \E p \in Procs :
        /\ pc[p] = "done"
        /\ log[p] = <<"401", "hsok", "401">>
        /\ ~result[p].ok

\* C3: when the handshake run after a 401 fails, at its first or at its second
\* step, the operation has returned an error, the request was sent once and
\* never replayed, and the handshake was run once.
BootstrapFailures == {"session request failed", "no session cookie"}
LoginStepFailures == {"login request failed", "parsing login response", "login failed"}

C3_FailedHandshakeIsTerminal ==
    \A p \in Procs :
        (log[p] # <<>> /\ log[p][1] = "401" /\ Logged(p, "hsfail"))
        => /\ pc[p] = "done"
           /\ log[p] = <<"401", "hsfail">>
           /\ ~result[p].ok
           /\ result[p].err = "re-login after 401 failed"
           /\ result[p].cause \in BootstrapFailures \cup LoginStepFailures

C3_Witness ==
    \E p \in Procs :
        /\ pc[p] = "done" /\ log[p] = <<"401", "hsfail">>
        /\ result[p].cause = "login failed"
        /\ sessionID = BootstrapIDOf(opn[p])

\* C4: a first response that is neither 200 nor 401 ends the operation with
\* the unexpected-status error carrying that status, after one send and no
\* handshake; a replay answered by a status other than 200 ends it with the
\* error carrying the replay's status, after two sends.
CodeOf(e) == CASE e = "401" -> 401 [] e = "403" -> 403 [] e = "500" -> 500 [] OTHER -> 0

C4_UnexpectedStatusNoRetry ==
    \A p \in Procs :
        /\ (log[p] # <<>> /\ log[p][1] \in {"403", "500"})
            => /\ pc[p] = "done"
               /\ log[p] = <<log[p][1]>>
               /\ result[p] = Err("unexpected status", "", CodeOf(log[p][1]))
        /\ (Len(Sends(p)) >= 2 /\ Sends(p)[2] \in {"401", "403", "500"})
            => /\ pc[p] = "done"
               /\ SendCount(p) = 2
               /\ result[p] = Err("unexpected status", "", CodeOf(Sends(p)[2]))

C4_Witness ==
    \E p \in Procs :
        /\ pc[p] = "done" /\ log[p] = <<"500">> /\ result[p].code = 500
        /\ sess0[p].sessionID \in authed

\* The Session as one successful handshake leaves it: an identifier that
\* handshake authenticated, and no token of another handshake.
SessionFull ==
    /\ sessionID \in authed
    /\ st1 \in {0, HandshakeOf(sessionID)}
    /\ st2 \in {0, HandshakeOf(sessionID)}
    /\ newAuth = (st1 # 0 \/ st2 # 0)

\* C5: whenever no handshake or logout is running, the Session is fully
\* absent or fully populated by one successful handshake.
C5_SessionAbsentOrFull ==
    mu = 0 => (Session = ClearedSession \/ SessionFull)

\* C6: every data request on the wire carries the identifier of a
\* successfully completed handshake.
C6_NoSendWithoutHandshake ==
    \A p \in Procs : pc[p] \in {"do1", "do2"} => req[p].cookie \in authed

\* C6, amended: the first request of an operation is sent with no handshake
\* before it, whatever Session is stored; a replay is sent only after the
\* same operation has completed a handshake successfully.
C6_ReplayAfterHandshake ==
    \A p \in Procs :
        /\ pc[p] = "do1" => log[p] = <<>>
        /\ pc[p] \in {"fn2", "do2"} => log[p] = <<"401", "hsok">>

C6_Witness ==
    \E p \in Procs :
        /\ pc[p] = "do2"
        /\ sess0[p] = ClearedSession
        /\ log[p] = <<"401", "hsok">>
        /\ req[p].cookie \in authed

\* C7: a reauthentication that fails inside an operation of an authenticated
\* Client leaves the Session cleared.
C7_FailedReauthClears ==
    \A p \in Procs :
        (/\ pc[p] = "done"
         /\ result[p].err = "re-login after 401 failed"
         /\ sess0[p].sessionID \in authed
         /\ OthersIdle(p))
        => Session = ClearedSession

\* C8: after a failed data operation the Session is the one stored before the
\* call or a cleared one, and an operation whose first response is not 401
\* leaves the Session as it was.
DataErrors ==
    {"unknown power action", "request failed", "retry request failed",
     "unexpected status", "reading response body", "re-login after 401 failed"}

C8_FailureKeepsSession ==
    \A p \in Procs :
        (pc[p] = "done" /\ OthersIdle(p))
        => /\ result[p].err \in DataErrors
                => (Session = sess0[p] \/ Session = ClearedSession)
           /\ (log[p] # <<>> /\ log[p][1] \in SendEvents \ {"401"})
                => Session = sess0[p]

\* C9: at most one caller is inside a handshake, and no request carries a
\* half-updated Session: not a cookie of one handshake with a token of
\* another, and not the identifier a handshake in progress has stored
\* between its two steps.
InHandshake(p) == pc[p] \in {"login1", "login2"}

C9_NoHalfUpdatedRequest ==
    /\ \A p, q \in Procs : (InHandshake(p) /\ InHandshake(q)) => p = q
    /\ \A p \in Procs : InHandshake(p) => mu = p
    /\ \A p \in Procs :
          pc[p] \in {"do1", "do2"}
          => /\ (req[p].cookie # 0 /\ req[p].st2 # 0)
                   => req[p].st2 = HandshakeOf(req[p].cookie)
             /\ \A q \in Procs :
                   pc[q] = "login2" => req[p].cookie # BootstrapIDOf(opn[q])

\* C10: callers that each saw the expired session and each logged in again
\* all succeed, each with the body of the response to its own last send.
C10_ConcurrentReauth ==
    \A p \in Procs :
        pc[p] = "done"
        => /\ result[p].ok
           /\ result[p].body = BodyOf(opn[p], SendCount(p))

C10_Witness ==
    \E p, q \in Procs :
        /\ p # q
        /\ pc[p] = "done" /\ log[p] = <<"401", "hsok", "200">> /\ result[p].ok
        /\ pc[q] \in {"fn2", "do2"} /\ log[q] = <<"401", "hsok">>

\* C11: no call lasts forever, a call ends only by returning, and no caller
\* asks for the lock while it holds it: not doWithRetry before login(), not
\* applySession before the replay.
InCall(p) == pc[p] \notin {"idle", "done"}

C11_EveryCallReturns ==
    /\ [](\A p \in Procs : pc[p] \in {"lock", "fn2"} => mu # p)
    /\ [][\A p \in Procs : (InCall(p) /\ ~InCall(p)') => pc'[p] = "done"]_vars
    /\ \A p \in Procs : []<>(~InCall(p))

C11_Witness ==
    \E p, q \in Procs :
        /\ p # q
        /\ pc[p] = "lock" /\ mu = q /\ pc[q] = "logout"

\* C12: a handshake is started only by a Login call or by a data operation
\* whose first send was just answered 401, so a handshake in an operation's
\* record is the whole record of a Login or follows a first 401; and the
\* Session changes only in steps of a handshake or of a Logout.
C12_HandshakeOnlyOnDemand ==
    /\ [](\A p \in Procs :
            /\ (pc[p] = "lock" \/ InHandshake(p))
                => \/ kind[p] = "Login" /\ log[p] = <<>>
                   \/ kind[p] \in DataKinds /\ log[p] = <<"401">>
            /\ \A i \in 1..Len(log[p]) :
                  log[p][i] \in {"hsok", "hsfail"}
                  => \/ Len(log[p]) = 1
                     \/ i = 2 /\ log[p][1] = "401")
    /\ [][Session' # Session
            => \E p \in Procs : InHandshake(p) \/ pc[p] = "logout"]_vars

C12_Witness ==
    \E p, q \in Procs :
        /\ p # q
        /\ pc[p] = "login1" /\ log[p] = <<"401">>
        /\ pc[q] = "done" /\ log[q] \in {<<"err">>, <<"500">>}
        /\ HandshakeCount(q) = 0

\* What went wrong in the handshake of a returned operation: Login returns
\* login()'s error, doWithRetry wraps it.
HandshakeError(res) ==
    IF res.err = "re-login after 401 failed" THEN res.cause ELSE res.err

\* C13: the login POST is issued only after the bootstrap GET has returned,
\* by the caller that holds the lock, and carries the identifier that GET
\* supplied; a bootstrap GET that fails or supplies no identifier ends the
\* handshake with a bootstrap error and no POST.
C13_BootstrapBeforeLogin ==
    /\ [](\A p \in Procs :
            pc[p] = "login2"
            => /\ mu = p
               /\ LoginCookie # 0
               /\ LoginCookie = BootstrapIDOf(opn[p]))
    /\ [][\A p \in Procs :
            /\ (pc'[p] = "login2" /\ pc[p] # "login2") => pc[p] = "login1"
            /\ (pc[p] = "login1" /\ pc'[p] \notin {"login1", "login2"})
                => /\ pc'[p] = "done"
                   /\ HandshakeError(result'[p]) \in BootstrapFailures
                   /\ sessionID' \in {0, sessionID}
            /\ (pc[p] = "login2" /\ pc'[p] # "login2")
                => HandshakeError(result'[p]) \notin BootstrapFailures]_vars

C13_Witness ==
    \E p, q \in Procs :
        /\ p # q
        /\ pc[p] = "login2" /\ LoginCookie = BootstrapIDOf(opn[p])
        /\ sess0[p].sessionID # LoginCookie
        /\ pc[q] = "done" /\ HandshakeError(result[q]) = "no session cookie"

\* The step in which caller p's login() returns from its second step.
LoginPostReturns(p) == pc[p] = "login2" /\ pc'[p] # "login2"
HandshakeSucceeds(p) == log'[p][Len(log'[p])] = "hsok"

\* C14: the handshake succeeds exactly when the login answer parsed with
\* authResult 0; an answer with another authResult ends the call with the
\* login failure that carries that authResult and the answer's errorMsg, and
\* leaves the Client with an identifier no login authenticated.
C14_SuccessIffAuthResultZero ==
    [][\A p \in Procs :
        LoginPostReturns(p)
        => /\ HandshakeSucceeds(p)
                <=> (loginResp'.t = "xml" /\ loginResp'.authResult = 0)
           /\ (loginResp'.t = "xml" /\ loginResp'.authResult # 0)
                => /\ pc'[p] = "done"
                   /\ ~result'[p].ok
                   /\ HandshakeError(result'[p]) = "login failed"
                   /\ result'[p].code = loginResp'.authResult
                   /\ result'[p].msg = loginResp'.errorMsg
                   /\ authed' = authed
                   /\ sessionID' \notin authed']_vars

C14_Witness ==
    \E p \in Procs :
        /\ pc[p] = "done"
        /\ log[p] = <<"hsfail">>
        /\ result[p].err = "login failed"
        /\ result[p].code = 1
        /\ result[p].msg = "Invalid credentials"
        /\ loginResp.authResult = 1
        /\ sessionID \notin authed

\* C15: a successful handshake whose forwardUrl has a query stores the ST1
\* and the ST2 it names, each the token of this handshake, and sets newAuth
\* when it names either; a forwardUrl without a query, or none, leaves both
\* tokens and newAuth as they were.
C15_TokensFromForwardUrl ==
    [][\A p \in Procs :
        (LoginPostReturns(p) /\ HandshakeSucceeds(p))
        => LET f == loginResp'.fwd
           IN IF f.query
              THEN /\ "ST1" \in f.keys => st1' = opn[p]
                   /\ "ST2" \in f.keys => st2' = opn[p]
                   /\ "ST1" \notin f.keys => st1' = st1
                   /\ "ST2" \notin f.keys => st2' = st2
                   /\ f.keys # {} => newAuth'
                   /\ f.keys = {} => newAuth' = newAuth
              ELSE st1' = st1 /\ st2' = st2 /\ newAuth' = newAuth]_vars

C15_Witness ==
    \E p \in Procs :
        /\ pc[p] = "done"
        /\ log[p] = <<"hsok">>
        /\ loginResp.fwd.query /\ loginResp.fwd.keys = {"ST1"}
        /\ sess0[p] = ClearedSession
        /\ st1 = opn[p] /\ st2 = 0 /\ newAuth

\* The step in which caller p's fn() has built a request and applied the
\* session to it: the request goes out next.
RequestApplied(p) == pc'[p] \in {"do1", "do2"} /\ pc'[p] # pc[p]

\* C16: every data request, first send or replay, is built with the current
\* session identifier as cookie, and with a secondary-token header whenever
\* newAuth is set, also when the controller supplied ST1 and no ST2.
C16_RequestCarriesSession ==
    [][\A p \in Procs :
        RequestApplied(p)
        => /\ req'[p].cookie = sessionID
           /\ newAuth => req'[p].st2 # 0]_vars

\* The step in which caller p's Logout returns.
LogoutReturns(p) == pc[p] = "logout" /\ pc'[p] # "logout"

\* C17: a Logout that returns without error leaves the four fields cleared,
\* whatever they held; a Logout whose request fails returns that error and
\* leaves the four fields as they were; either way the lock is released.
C17_LogoutClearsOrKeeps ==
    [][\A p \in Procs :
        LogoutReturns(p)
        => /\ pc'[p] = "done"
           /\ mu = p /\ mu' = 0
           /\ IF result'[p].ok
              THEN Session' = ClearedSession
              ELSE /\ result'[p].err = "logout request failed"
                   /\ Session' = Session]_vars

C17_Witness ==
    \E p \in Procs :
        /\ pc[p] = "done"
        /\ log[p] = <<>>
        /\ result[p] = Ok(0)
        /\ sess0[p].sessionID \in authed
        /\ sess0[p].st1 # 0 /\ sess0[p].st2 # 0 /\ sess0[p].newAuth
        /\ Session = ClearedSession

\* The numeric codes of the power actions: ActionPowerOff .. ActionGracefulShut.
PowerCodes ==
    [off |-> 0, on |-> 1, restart |-> 2, reset |-> 3, nmi |-> 4, shutdown |-> 5]

\* C18: against a controller that keeps its sessions and answers, a
\* SetPowerByName with one of the six names is a Set with the parameter
\* pwState:<code of the name> and returns without error; with any other name
\* it has returned the unknown-action error, has sent nothing, has run no
\* handshake and has left the Session, the lock and the controller as they
\* were.
C18_SetPowerByName ==
    /\ [](\A p \in Procs :
            power[p].byName
            => IF power[p].name \in DOMAIN PowerCodes
               THEN /\ InCall(p)
                    /\ kind[p] = "Set"
                    /\ power[p].param =
                         [key |-> "pwState", value |-> PowerCodes[power[p].name]]
               ELSE /\ pc[p] = "done"
                    /\ result[p] = Err("unknown power action", "", 0)
                    /\ log[p] = <<>>
                    /\ req[p] = NoReq)
    /\ [][\A p \in Procs :
            /\ (power[p].byName /\ InCall(p) /\ pc'[p] = "done")
                => result'[p].ok
            /\ (opn'[p] # opn[p] /\ power'[p].byName
                    /\ power'[p].name \notin DOMAIN PowerCodes)
                => /\ Session' = Session
                   /\ mu' = mu
                   /\ valid' = valid]_vars

C18_Witness ==
    \E p, q \in Procs :
        /\ p # q
        /\ pc[p] = "do2" /\ log[p] = <<"401", "hsok">>
        /\ power[p].name = "shutdown" /\ power[p].param.value = 5
        /\ pc[q] = "done" /\ power[q].name = "ON"
        /\ result[q].err = "unknown power action"

\* C19: a GetPowerState whose Get returned a well-formed body returns Off
\* for the pwState "0", On for "1" and Unknown for every other content, an
\* empty or absent element too, and its status is the name of its state.
C19_PowerStateMapping ==
    (qcall = "GetPowerState" /\ qat = "done")
    => LET g == qgot[1]
       IN /\ qret.err = "" <=> (~g.err /\ g.wellformed)
          /\ qret.err = ""
                => /\ g.pwState = "0" => qret.state = PowerOff
                   /\ g.pwState = "1" => qret.state = PowerOn
                   /\ g.pwState \notin {"0", "1"} => qret.state = PowerInvalid
                   /\ qret.state = PowerOff => qret.status = "off"
                   /\ qret.state = PowerOn => qret.status = "on"
                   /\ qret.state = PowerInvalid => qret.status = "unknown"

C19_Witness ==
    /\ qcall = "GetPowerState" /\ qat = "done"
    /\ qgot[1].pwState = "absent" /\ ~qgot[1].err /\ qgot[1].wellformed
    /\ qret.state = PowerInvalid /\ qret.status = "unknown"

\* The sub-queries GetSensors has finished.
SubQueriesDone == Len(qgot)

\* C20: whatever sub-queries fail, GetSensors has no error; the group of a
\* failed sub-query is empty, the group of every other finished sub-query is
\* the list its getSensorType returned, and the groups not yet queried are
\* empty.
C20_SensorsPartialFailure ==
    qcall = "GetSensors"
    => /\ qret.err = ""
       /\ qat = "done" <=> SubQueriesDone = Len(SensorGroups)
       /\ \A i \in 1..Len(SensorGroups) :
             qret[SensorGroups[i]] =
                IF i > SubQueriesDone \/ qgot[i].err THEN <<>>
                ELSE GetSensorType(SensorGroups[i], qgot[i]).list

C20_Witness ==
    /\ qcall = "GetSensors" /\ qat = "done"
    /\ qgot[1].err /\ ~qgot[2].err /\ qgot[3].err
    /\ qret.temperatures = <<>> /\ qret.fans # <<>> /\ qret.voltages = <<>>
    /\ qret.err = ""

\* C21: getSensorType returns the readings of the structured list whenever
\* that list has an entry, whatever flat text the body holds; with no
\* structured entry it returns the readings of the flat text of the same
\* field; and with neither it returns an empty list and no error.
C21_StructuredBeforeFlat ==
    (qcall = "GetTemperatures" /\ qat = "done" /\ ~qgot[1].err) =>
        LET g == qgot[1]
            structured == IF g.wellformed THEN g.structured ELSE <<>>
            flat == IF g.wellformed /\ g.flatFor = "temperatures"
                    THEN g.text ELSE <<>>
        IN /\ qret.err = ""
           /\ Len(structured) > 0 =>
                /\ Len(qret.temperatures) = Len(structured)
                /\ \A i \in 1..Len(structured) :
                        qret.temperatures[i].name = structured[i]
           /\ (Len(structured) = 0 /\ flat # <<>>) =>
                qret.temperatures = ParseLegacySensors(flat, "C")
           /\ (Len(structured) = 0 /\ flat = <<>>) => qret.temperatures = <<>>

\* GetTemperatures has answered from the structured list of a body that
\* also holds a flat text with a reading for the same field.
C21_Witness ==
    /\ qcall = "GetTemperatures" /\ qat = "done"
    /\ Len(qgot[1].structured) > 0
    /\ qgot[1].flatFor = "temperatures"
    /\ Len(ParseLegacySensors(qgot[1].text, "C")) > 0
    /\ qret.temperatures = ParseXMLSensors(qgot[1].structured)

\* The flat text GetTemperatures decoded, when its answer came from one.
FlatDecoded ==
    /\ qcall = "GetTemperatures" /\ qat = "done"
    /\ ~qgot[1].err /\ qgot[1].wellformed
    /\ qgot[1].structured = <<>> /\ qgot[1].flatFor = "temperatures"

\* The name an entry of a flat text carries: what stands before its first
\* "=", or the entry itself when it has none, without the blanks around it.
EntryName(entry) ==
    LET e == TrimSpace(entry)
    IN IF Contains(e, "=") THEN TrimSpace(SubSeq(e, 1, IndexOf(e, "=") - 1))
       ELSE e

NonEmpty(t) == t # <<>>

NamesOf(readings) == [i \in 1..Len(readings) |-> readings[i].name]

\* C22: the flat-text decoder returns one reading for each entry that has a
\* name, in the order of the entries, and none for the others; the text
\* "Inlet Temp=23;ok;42;47|Exhaust Temp=35;ok;70;75" gives exactly two
\* readings, the first named "Inlet Temp" with value 23, status "ok",
\* warning 42 and critical 47; a blank text gives no reading and no error.
C22_FlatTextReadings ==
    FlatDecoded =>
        LET raw == qgot[1].text
            out == qret.temperatures
            entries == SplitSensors(raw)
        IN /\ qret.err = ""
           /\ NamesOf(out) =
                SelectSeq([i \in 1..Len(entries) |-> EntryName(entries[i])],
                          NonEmpty)
           /\ TrimSpace(raw) = <<>> => out = <<>>
           /\ raw = InletExhaust =>
                /\ Len(out) = 2
                /\ out[1].name = <<"I", "n", "l", "e", "t", " ", "T", "e", "m", "p">>
                /\ out[1].value = Num(23 * Scale)
                /\ out[1].status = <<"o", "k">>
                /\ out[1].warning = Num(42 * Scale)
                /\ out[1].critical = Num(47 * Scale)
                /\ out[2].name =
                      <<"E", "x", "h", "a", "u", "s", "t", " ", "T", "e", "m", "p">>

\* The two readings of the example have been returned.
C22_Witness ==
    /\ FlatDecoded
    /\ qgot[1].text = InletExhaust
    /\ Len(qret.temperatures) = 2

\* An entry without a name has been dropped from between two readings.
C22_WitnessDropped ==
    /\ FlatDecoded
    /\ Len(SplitSensors(qgot[1].text)) = 3
    /\ EntryName(SplitSensors(qgot[1].text)[2]) = <<>>
    /\ Len(qret.temperatures) = 2

\* A well-formed number: an optional sign, then digits with at most one
\* decimal point among them.
IsNumberText(t) ==
    LET u == IF t # <<>> /\ t[1] \in {"+", "-"} THEN Tail(t) ELSE t
    IN /\ \A i \in 1..Len(u) : u[i] \in Digits \cup {"."}
       /\ Cardinality({i \in 1..Len(u) : u[i] = "."}) <= 1
       /\ \E i \in 1..Len(u) : u[i] \in Digits

\* C23: parseFloat returns a number for every text: 0 for a blank text, for
\* "N/A" and for every text that is not a well-formed number, and the
\* number itself for a well-formed number with blanks around it.
C23_ParseFloatTotal ==
    (qcall = "parseFloat" /\ qat = "done") =>
        LET t == TrimSpace(qgot[1])
        IN /\ qret.value.cls = "num"
           /\ (t = <<>> \/ t = <<"N", "/", "A">>) => qret.value = Num(0)
           /\ ~IsNumberText(t) => qret.value = Num(0)
           /\ IsNumberText(t) => qret.value = Num(Decimal(t).n)
           /\ qgot[1] = <<" ", "2", "3", " ">> => qret.value = Num(23 * Scale)

\* The same, for the texts strconv.ParseFloat does not read as NaN or as an
\* infinity.
C23_ParseFloatOrdinary ==
    (qcall = "parseFloat" /\ qat = "done"
        /\ ~IsNaNText(TrimSpace(qgot[1])) /\ ~IsInfText(TrimSpace(qgot[1]))) =>
        LET t == TrimSpace(qgot[1])
        IN /\ qret.value.cls = "num"
           /\ ~IsNumberText(t) => qret.value = Num(0)
           /\ IsNumberText(t) => qret.value = Num(Decimal(t).n)

\* parseFloat has returned NaN for a text that is no number.
C23_WitnessNaN ==
    /\ qcall = "parseFloat" /\ qat = "done"
    /\ ~IsNumberText(TrimSpace(qgot[1]))
    /\ qret.value = NaN

\* GetSEL has answered with the entries of a log.
SelDecoded ==
    /\ qcall = "GetSEL" /\ qat = "done"
    /\ ~qgot[1].err /\ qgot[1].wellformed

\* The lines of a log that are not blank, without the blanks around them.
LogLines(raw) ==
    LET lines == Split(raw, "\n")
        trimmed == [i \in 1..Len(lines) |-> TrimSpace(lines[i])]
    IN SelectSeq(trimmed, NonEmpty)

Count(s, c) == Cardinality({i \in 1..Len(s) : s[i] = c})

\* The pattern a line is read by: the pipes when it has three, else the
\* semicolons when it has three, else none.
PatternOf(line) ==
    IF Count(line, "|") >= 3 THEN "|"
    ELSE IF Count(line, ";") >= 3 THEN ";"
    ELSE ""

\* What stands after the n-th c of s.
RECURSIVE After(_, _, _)
After(s, c, n) ==
    IF n = 0 THEN s ELSE After(SubSeq(s, IndexOf(s, c) + 1, Len(s)), c, n - 1)

\* The entry a line stands for.
EntryOf(line) ==
    LET c == PatternOf(line)
    IN IF c = ""
       THEN [id |-> <<"0">>, timestamp |-> <<>>,
             severity |-> <<"U", "n", "k", "n", "o", "w", "n">>,
             description |-> line]
       ELSE [id |-> TrimSpace(Split(line, c)[1]),
             timestamp |-> TrimSpace(Split(line, c)[2]),
             severity |-> TrimSpace(Split(line, c)[3]),
             description |-> TrimSpace(After(line, c, 3))]

HasID(entry) == entry.id # <<>>

\* C24: the entries of an event log are those of its lines, in the order
\* of the lines and one for one, equal lines giving equal entries; a line
\* is read as four pipe-delimited fields when it has them, else as four
\* semicolon-delimited fields when it has them, else as a description with
\* severity "Unknown" and id "0".
C24_SelLinePatterns ==
    SelDecoded =>
        LET lines == LogLines(DecodeSEL(qgot[1]))
        IN /\ qret.err = ""
           /\ qret.entries =
                SelectSeq([i \in 1..Len(lines) |-> EntryOf(lines[i])], HasID)
           /\ qret.totalCount = Len(qret.entries)

\* A log of two equal pipe-delimited lines around a line without
\* delimiters has given three entries, the first equal to the third and
\* the second the fallback.
C24_Witness ==
    /\ SelDecoded
    /\ Len(LogLines(DecodeSEL(qgot[1]))) = 3
    /\ Len(qret.entries) = 3
    /\ PatternOf(LogLines(DecodeSEL(qgot[1]))[1]) = "|"
    /\ qret.entries[1] = qret.entries[3]
    /\ qret.entries[2].id = <<"0">>
    /\ qret.entries[2].description = <<"b", "o", "o", "t">>

\* A line with three semicolons and three pipes has been read by its pipes.
C24_WitnessBoth ==
    /\ SelDecoded
    /\ Len(qret.entries) = 1
    /\ Count(DecodeSEL(qgot[1]), "|") >= 3 /\ Count(DecodeSEL(qgot[1]), ";") >= 3
    /\ qret.entries[1].id = <<"a", ";", "b">>

\* A line read by a pattern whose first field is blank.
EmptyFirstField(line) ==
    /\ PatternOf(line) # ""
    /\ TrimSpace(SubSeq(line, 1, IndexOf(line, PatternOf(line)) - 1)) = <<>>

\* C25: no entry of an event log has an empty id; there are as many
\* entries as lines that are neither blank nor read by a pattern whose first
\* field is empty.
C25_NoEmptyIdentifier ==
    SelDecoded =>
        LET lines == LogLines(DecodeSEL(qgot[1]))
        IN /\ \A i \in 1..Len(qret.entries) : qret.entries[i].id # <<>>
           /\ Len(qret.entries) =
                Cardinality({i \in 1..Len(lines) : ~EmptyFirstField(lines[i])})

\* A log with a blank line, a line "|t|s|d" and a line "1|t|s|d" has given
\* the one entry of the last.
C25_Witness ==
    /\ SelDecoded
    /\ Len(Split(DecodeSEL(qgot[1]), "\n")) = 3
    /\ \E i \in 1..3 : TrimSpace(Split(DecodeSEL(qgot[1]), "\n")[i]) = <<>>
    /\ \E i \in 1..3 :
          Split(DecodeSEL(qgot[1]), "\n")[i] = <<"|", "t", "|", "s", "|", "d">>
    /\ Len(qret.entries) = 1
    /\ qret.entries[1].id = <<"1">>

\* A query has answered on a body that xml.Unmarshal accepts.
Decoded(call) ==
    /\ qcall = call /\ qat = "done"
    /\ ~qgot[1].err /\ qgot[1].wellformed

\* C26: on a body the decoder accepts, an operation returns a result and no
\* error, and an element missing from the body gives the zero value of its
\* field: "" in the system information, the unknown power state, an empty
\* list of readings, an empty event log.
C26_AbsentFieldsDecodeToZero ==
    /\ Decoded("GetSystemInfo") =>
          /\ qret.err = ""
          /\ \A f \in DOMAIN SystemInfoFields :
                /\ qgot[1].elems[SystemInfoFields[f]] = "absent" => qret.info[f] = ""
                /\ qgot[1].elems[SystemInfoFields[f]] # "absent" =>
                        qret.info[f] = qgot[1].elems[SystemInfoFields[f]]
    /\ Decoded("GetPowerState") =>
          /\ qret.err = ""
          /\ qgot[1].pwState \notin {"0", "1"} =>
                (qret.state = PowerInvalid /\ qret.status = "unknown")
    /\ Decoded("GetTemperatures") =>
          /\ qret.err = ""
          /\ (qgot[1].structured = <<>> /\ qgot[1].flatFor # "temperatures") =>
                qret.temperatures = <<>>
    /\ Decoded("GetSEL") =>
          /\ qret.err = ""
          /\ qgot[1].flatFor # "sel" => (qret.entries = <<>> /\ qret.totalCount = 0)

\* GetSystemInfo has answered on a body that holds a host name and no
\* service tag.
C26_Witness ==
    /\ Decoded("GetSystemInfo")
    /\ qgot[1].elems["hostName"] = "R710"
    /\ qgot[1].elems["svcTag"] = "absent"
    /\ qret.info.hostname = "R710"
    /\ qret.info.serviceTag = ""

\* What runs for a request once it is past the middleware.
HandlerSteps ==
    {"Health", "ListHosts", "GetPower", "GetVirtualMedia", "NewClient", "Login",
     "Store"}

HasRun(h, steps) == \E i \in 1..Len(hlog[h]) : hlog[h][i] \in steps

\* Request h names, under /api/hosts/{hostID}, a host the configuration does
\* not have.
UnknownHost(h) ==
    /\ hreq[h].route \in HostRoutes
    /\ hreq[h].hostID \notin DOMAIN config.hosts

\* C27: a request under /api/hosts/{hostID} for a host id that is not in the
\* configuration is answered 404 by hostCtx, and no handler runs for it: no
\* Client is created, no login is attempted, and the registries hold no
\* entry for a host that is not configured.
C27_UnknownHostRejected ==
    /\ \A h \in Requests :
          UnknownHost(h) =>
            /\ ~HasRun(h, HandlerSteps)
            /\ (hpc[h] = "done" /\ HasRun(h, {"hostCtx"})) => hresp[h].status = 404
            /\ hpc[h] \notin {"handler", "login", "op"}
    /\ DOMAIN clients \subseteq DOMAIN config.hosts
    /\ DOMAIN vmedia \subseteq DOMAIN config.hosts

\* With hosts configured, a request for the power of another host has been
\* answered 404 by hostCtx.
C27_Witness ==
    \E h \in Requests :
        /\ UnknownHost(h) /\ hreq[h].route = "/hosts/{hostID}/power"
        /\ DOMAIN config.hosts # {}
        /\ hpc[h] = "done" /\ hresp[h].status = 404
        /\ hlog[h][Len(hlog[h])] = "hostCtx"

\* Request h carries the API key, in X-API-Key or as a Bearer token.
CarriesKey(h) ==
    \/ hreq[h].xApiKey = config.apiKey
    \/ (hreq[h].authorization.scheme = "Bearer"
            /\ hreq[h].authorization.token = config.apiKey)

Public(cfg) ==
    {[id |-> id, name |-> cfg.hosts[id].name, host |-> cfg.hosts[id].host] :
        id \in DOMAIN cfg.hosts}

\* ListHosts has answered request h.
Listed(h) ==
    /\ hpc[h] = "done" /\ hreq[h].route = "/hosts"
    /\ HasRun(h, {"ListHosts"})

\* C29: every element of the host listing has the fields id, name and host
\* and no other, there is one element for each configured host, and the
\* listing is that of every configuration that differs from the router's
\* only in user names and passwords.
C29_ListHostsNoCredentials ==
    \A h \in Requests :
        Listed(h) =>
            LET body == hresp[h].body
                elements == {body[i] : i \in 1..Len(body)}
            IN /\ hresp[h].status = 200
               /\ \A e \in elements : DOMAIN e = {"id", "name", "host"}
               /\ Len(body) = Cardinality(DOMAIN config.hosts)
               /\ \A cfg \in Configs : Public(cfg) = Public(config) => elements = Public(cfg)

\* The hosts have been listed under a configuration that is not the only
\* one with its hosts' names and addresses.
C29_Witness ==
    \E h \in Requests :
        /\ Listed(h)
        /\ Len(hresp[h].body) = 2
        /\ config.hosts["r710"].username = "admin"
        /\ \E cfg \in Configs : cfg # config /\ Public(cfg) = Public(config)
                                    /\ cfg.apiKey = config.apiKey

\* C30: an operation whose first send is answered 401 runs exactly one
\* handshake, also when another caller has replaced the Session since, and
\* an operation whose first send is answered otherwise runs none; so k
\* operations answered 401 run k handshakes, each authenticating an
\* identifier of its own, and no two of them are in a handshake at once.
C30_HandshakePerOperation ==
    /\ \A p \in Procs :
          /\ HandshakeCount(p) <= 1
          /\ (pc[p] \in {"fn2", "do2", "done"} /\ log[p][1] = "401") =>
                HandshakeCount(p) = 1
          /\ (log[p] # <<>> /\ log[p][1] # "401") => HandshakeCount(p) = 0
    /\ \A p, q \in Procs :
          (pc[p] \in {"login1", "login2"} /\ pc[q] \in {"login1", "login2"}) => p = q
    /\ (\A p \in Procs : pc[p] = "done") =>
          Cardinality(authed) - 1 = Cardinality({p \in Procs : log[p][1] = "401"})

\* Every caller's operation was answered 401, logged in again and was
\* served, the Session being the one of the last handshake.
C30_Witness ==
    /\ \A p \in Procs : pc[p] = "done" /\ log[p] = <<"401", "hsok", "200">>
    /\ Cardinality(authed) = NumProcs + 1

\* C31: the replay of an operation that logged in again carries an
\* identifier that a successfully completed handshake stored: never no
\* cookie, never the identifier a failed handshake left behind.
C31_ReplayCarriesAuthenticated ==
    \A p \in Procs :
        (pc[p] = "do2" /\ log[p] = <<"401", "hsok">>) => req[p].cookie \in authed

\* C32: a successful handshake leaves only the secondary tokens of its own
\* answer stored: when the forwardUrl names no ST1 and no ST2, st1 and st2
\* are empty and newAuth is false afterwards.
C32_TokensOfThisHandshakeOnly ==
    [][\A p \in Procs :
          (pc[p] = "login2" /\ log'[p] = Append(log[p], "hsok"))
          => /\ st1' \in {0, opn[p]}
             /\ st2' \in {0, opn[p]}
             /\ (loginResp'.fwd.keys = {})
                   => (st1' = 0 /\ st2' = 0 /\ ~newAuth')]_vars

\* C33: between the two steps the stored identifier is the one of the parsed
\* session cookie of /start.html when there is one, and otherwise the text
\* that follows "_appwebSessionId_=" in the raw Set-Cookie header up to the
\* first ";"; after a successful handshake it is the identifier the login
\* answer sets when it sets one, and otherwise the identifier of step 1.
FirstOf(S) == CHOOSE i \in S : \A j \in S : i <= j

Step1Identifier(p) ==
    LET c == sessionResp.cookies
        h == sessionResp.setCookie
        named == {i \in 1..Len(c) : c[i].name = SessionCookieName}
        marks == {i \in 1..Len(h) : h[i] = SessionCookieMarker}
        m == FirstOf(marks)
    IN IF named # {}
       THEN IF c[FirstOf(named)].value = "s" THEN BootstrapIDOf(opn[p]) ELSE -1
       ELSE IF /\ marks # {}
               /\ m < Len(h)
               /\ h[m + 1] = "s"
               /\ (m + 2 > Len(h) \/ h[m + 2] = ";")
            THEN BootstrapIDOf(opn[p])
            ELSE -1

C33_StoredIdentifier ==
    /\ [](\A p \in Procs : pc[p] = "login2" => sessionID = Step1Identifier(p))
    /\ [][\A p \in Procs :
            (pc[p] = "login2" /\ log'[p] = Append(log[p], "hsok"))
            => sessionID' = IF loginResp'.setCookie THEN LoginIDOf(opn[p])
                            ELSE Step1Identifier(p)]_vars

\* A handshake between its steps whose identifier came out of a raw header
\* that goes on after the first ";".
C33_Witness ==
    \E p \in Procs :
        /\ pc[p] = "login2"
        /\ sessionResp.cookies = <<>>
        /\ Len(sessionResp.setCookie) > 3
        /\ sessionResp.setCookie[1] = SessionCookieMarker
        /\ sessionResp.setCookie[3] = ";"
        /\ sessionID = BootstrapIDOf(opn[p])

\* C34: splitSensors gives no entry for a blank text; the pieces between the
\* pipes, newlines left inside them, when the trimmed text has a pipe; else
\* the lines when it has a newline; else the trimmed text as one entry.
Joined(pieces, sep) ==
    LET RECURSIVE join(_)
        join(k) == IF k = 0 THEN <<>>
                   ELSE IF k = 1 THEN pieces[1]
                   ELSE join(k - 1) \o <<sep>> \o pieces[k]
    IN join(Len(pieces))

SplitOn(pieces, t, sep) ==
    /\ Len(pieces) = Count(t, sep) + 1
    /\ \A i \in 1..Len(pieces) : ~Contains(pieces[i], sep)
    /\ Joined(pieces, sep) = t

C34_DelimiterOrder ==
    (qat = "done" /\ qcall = "splitSensors") =>
        LET t == TrimSpace(qgot[1])
            pieces == qret.split
        IN IF t = <<>> THEN pieces = <<>>
           ELSE IF Contains(t, "|") THEN SplitOn(pieces, t, "|")
           ELSE IF Contains(t, "\n") THEN SplitOn(pieces, t, "\n")
           ELSE pieces = <<t>>

\* A text with a pipe and a newline: two entries, the newline inside one.
C34_Witness ==
    /\ qat = "done" /\ qcall = "splitSensors"
    /\ Contains(qgot[1], "|") /\ Contains(qgot[1], "\n")
    /\ Len(qret.split) = 2
    /\ \E i \in 1..2 : Contains(qret.split[i], "\n")

\* C35: parseSensorEntry reads name=value;status;warning;critical field by
\* field: of an entry with k fields after the "=", 1 <= k, the first four are
\* set from the entry, and the status, warning and critical that are absent
\* are "ok", 0 and 0; an entry without "=" is a reading of that name with
\* value 0.
\* The k-th piece of v between semicolons.
FieldAt(v, k) ==
    LET semis == {i \in 1..Len(v) : v[i] = ";"}
        nth(n) == CHOOSE i \in semis : Cardinality({j \in semis : j < i}) = n - 1
        from == IF k = 1 THEN 1 ELSE nth(k - 1) + 1
        to == IF k > Cardinality(semis) THEN Len(v) ELSE nth(k) - 1
    IN SubSeq(v, from, to)

C35_FieldByField ==
    (qat = "done" /\ qcall = "parseSensorEntry" /\ TrimSpace(qgot[1]) # <<>>) =>
        LET e == TrimSpace(qgot[1])
            r == qret.reading
            eq == FirstOf({i \in 1..Len(e) : e[i] = "="})
            v == SubSeq(e, eq + 1, Len(e))
            k == Count(v, ";") + 1
        IN /\ r.unit = qgot[2]
           /\ IF Contains(e, "=")
              THEN /\ r.name = TrimSpace(SubSeq(e, 1, eq - 1))
                   /\ r.value = ParseFloat(FieldAt(v, 1))
                   /\ r.status = IF k >= 2 THEN TrimSpace(FieldAt(v, 2))
                                 ELSE <<"o", "k">>
                   /\ r.warning = IF k >= 3 THEN ParseFloat(FieldAt(v, 3)) ELSE Num(0)
                   /\ r.critical = IF k >= 4 THEN ParseFloat(FieldAt(v, 4)) ELSE Num(0)
              ELSE /\ r.name = e
                   /\ r.value = Num(0)
                   /\ r.status = <<"o", "k">>
                   /\ r.warning = Num(0) /\ r.critical = Num(0)

\* An entry of three fields: its warning threshold is read, its critical
\* threshold is 0.
C35_Witness ==
    /\ qat = "done" /\ qcall = "parseSensorEntry"
    /\ qgot[1] = <<"a", "=", "2", ";", "a", ";", "2", "2">>
    /\ qret.reading.value = Num(2000)
    /\ qret.reading.status = <<"a">>
    /\ qret.reading.warning = Num(22000)
    /\ qret.reading.critical = Num(0)

\* C36: the count GetSEL returns is the number of the entries it returns,
\* and it is 0 when the sel element is blank or absent.
C36_CountIsNumberOfEntries ==
    SelDecoded =>
        /\ qret.totalCount = Len(qret.entries)
        /\ TrimSpace(DecodeSEL(qgot[1])) = <<>> => qret.totalCount = 0

\* A log of three lines, one of them blank, has given a count of 2.
C36_Witness ==
    /\ SelDecoded
    /\ Len(Split(DecodeSEL(qgot[1]), "\n")) = 3
    /\ Len(qret.entries) = 2
    /\ qret.totalCount = 2

\* C37: a Get for k keys is one request, whose get= parameter holds the k
\* keys with commas between them, sent once and replayed at most once;
\* GetSensors runs its Gets one after the other, for temperatures, fans and
\* voltages in this order, each with at most one handshake: three handshakes
\* and six sends at most.
SendsOf(l) == CountIn(l, SendEvents)
HandshakesOf(l) == CountIn(l, {"hsok", "hsfail"})

\* The record of the Gets of the query so far, the one under way with what it
\* has done up to now.
GetLog(i) == IF i = Len(qgot) /\ qat = "wait" THEN log[Caller] ELSE qgot[i].log

RECURSIVE SumOver(_, _)
SumOver(F(_), n) == IF n = 0 THEN 0 ELSE F(GetLog(n)) + SumOver(F, n - 1)

C37_OneGetPerQuery ==
    /\ \A i \in 1..Len(qgot) :
          LET k == Len(qgot[i].keys)
              url == qgot[i].url
          IN /\ Len(url) = 2 * k
             /\ url[1] = "/data?get="
             /\ \A j \in 1..k : url[2 * j] = qgot[i].keys[j]
             /\ \A j \in 1..(k - 1) : url[2 * j + 1] = ","
             /\ SendsOf(GetLog(i)) <= 2
             /\ HandshakesOf(GetLog(i)) <= 1
             /\ (i < Len(qgot) \/ qat # "wait") => SendsOf(GetLog(i)) >= 1
    /\ qcall \in {"GetSystemInfo", "GetPowerState"} => Len(qgot) <= 1
    /\ qcall = "GetSystemInfo" /\ Len(qgot) = 1 => Len(qgot[1].keys) = 8
    /\ qcall = "GetSensors" =>
          /\ Len(qgot) <= 3
          /\ \A i \in 1..Len(qgot) :
                qgot[i].keys = << <<"temperatures">>, <<"fans">>, <<"voltages">> >>[i]
          /\ qat = "done" => Len(qgot) = 3
          /\ SumOver(HandshakesOf, Len(qgot)) <= 3
          /\ SumOver(SendsOf, Len(qgot)) <= 6

\* A GetSensors call that returned after three handshakes and six sends.
C37_Witness ==
    /\ qcall = "GetSensors" /\ qat = "done"
    /\ SumOver(HandshakesOf, 3) = 3
    /\ SumOver(SendsOf, 3) = 6

\* A GetSystemInfo call that returned after one send of its eight keys.
C37_WitnessKeys ==
    /\ qcall = "GetSystemInfo" /\ qat = "done"
    /\ Len(qgot[1].url) = 16
    /\ qgot[1].log = <<"200">>

\* C38: the registry of Clients changes only when a getClient whose Login
\* succeeded stores its Client; a failed Login stores nothing and is
\* answered 500, so that the next getClient for the host makes a new Client
\* and logs in; a getClient that finds an entry returns it without a new
\* Client and without a Login; and no entry is ever removed.
GetClientReturns(h) ==
    /\ hpc[h] = "handler" /\ hreq[h].route = "/hosts/{hostID}/power"
    /\ hpc'[h] \in {"login", "op", "done"}

C38_CreateOnFirstUse ==
    [][/\ clients' # clients =>
            \E h \in Requests :
                /\ hpc[h] = "login" /\ hpc'[h] = "op"
                /\ clients' = [k \in DOMAIN clients \cup {hreq[h].hostID} |->
                                 IF k = hreq[h].hostID THEN hclient[h]
                                 ELSE clients[k]]
       /\ DOMAIN clients \subseteq DOMAIN clients'
       /\ \A h \in Requests :
            /\ (hpc[h] = "login" /\ hpc'[h] = "done")
                  => (clients' = clients /\ hresp'[h].status = 500)
            /\ GetClientReturns(h) =>
                  IF hreq[h].hostID \in DOMAIN clients
                  THEN /\ hpc'[h] = "op"
                       /\ hclient'[h] = clients[hreq[h].hostID]
                       /\ ~HasRun(h, {"NewClient", "Login"})'
                  ELSE IF hreq[h].hostID \in DOMAIN config.hosts
                  THEN /\ hpc'[h] = "login"
                       /\ hclient'[h].by = h
                       /\ hclient'[h].host = config.hosts[hreq[h].hostID].host
                  ELSE hresp'[h].status = 500]_vars

\* A request holds the Client another request has made and stored, without
\* having logged in, after a request for the host whose Login failed.
C38_Witness ==
    \E h, k \in Requests :
        /\ h # k
        /\ hpc[h] = "op" /\ hclient[h].by = k
        /\ hclient[h] = clients[hreq[h].hostID]
        /\ ~HasRun(h, {"NewClient", "Login"})
        /\ hpc[k] = "done" /\ hlog[k] = <<"hostCtx", "GetPower", "NewClient", "Login">>

\* C39: no two requests have each made a Client for the same host and
\* logged it in, and the requests that hold a Client of a host hold the same
\* one.
C39_OneClientPerHost ==
    \A h, k \in Requests :
        (h # k /\ hpc[h] \in {"login", "op"} /\ hpc[k] \in {"login", "op"}
            /\ hreq[h].hostID = hreq[k].hostID)
        => /\ ~(HasRun(h, {"NewClient"}) /\ HasRun(k, {"NewClient"}))
           /\ (hpc[h] = "op" /\ hpc[k] = "op") => hclient[h] = hclient[k]

\* C40: once AddHost has written the configuration of a host, getClient
\* returns for it a Client of the address and the credentials now
\* configured, and the virtual media handler uses a manager of these.
Connects(c, cfg) ==
    c.host = cfg.host /\ c.username = cfg.username /\ c.password = cfg.password

C40_NewConfigurationUsed ==
    [][\A h \in Requests :
          /\ (GetClientReturns(h) /\ hpc'[h] = "op")
                => Connects(hclient'[h], config.hosts[hreq[h].hostID])
          /\ (/\ hpc[h] = "handler"
              /\ hreq[h].route = "/hosts/{hostID}/virtualmedia"
              /\ hpc'[h] = "done"
              /\ hreq[h].hostID \in DOMAIN vmedia')
                => Connects(vmedia'[hreq[h].hostID],
                            config.hosts[hreq[h].hostID])]_vars

====
